---- MODULE Spec2Model ----
(***************************************************************************)
(* Model of the proof-chat-editor translation pipeline:                    *)
(*   nlp/tokenizer.js   tokenizeSentences, classifySentence                *)
(*   nlp/entities.js    extractEntities                                    *)
(*   nlp/proofTree.js   buildProofTree and its handlers, validateTree      *)
(*   lean/generator.js  generateLean                                       *)
(*                                                                         *)
(* Text is a sequence of tokens.  A token is a maximal run of word         *)
(* characters [A-Za-z0-9_] or a single symbol.  Adjacent tokens are        *)
(* separated by one blank, except that punctuation and brackets attach to  *)
(* their neighbours (GluedBefore, GluedAfter).  Each regular expression of *)
(* the source is translated to a predicate over token sequences, with the  *)
(* character-level tests (case, prefixes, digits) computed on the tokens.  *)
(***************************************************************************)
EXTENDS Integers, Sequences, FiniteSets, TLC

VARIABLES
  pc,             \* position of the running call
  sentences,      \* buildProofTree: the entries of `sentences` consumed so far
  entities,       \* buildProofTree: the `entities` argument
  tree,           \* buildProofTree: const tree
  stepId,         \* buildProofTree: let stepId
  createdSteps,   \* buildProofTree: const createdSteps (ids of the step objects)
  variableScope,  \* buildProofTree: const variableScope (Map name -> ids)
  caseStack,      \* buildProofTree: const caseStack
  input,          \* argument of the pure function or pipeline under check
  output,         \* its result
  renderer        \* renderer.js: the module variables and the elements they drive

vars == <<pc, sentences, entities, tree, stepId, createdSteps, variableScope,
          caseStack, input, output, renderer>>

(***************************************************************************)
(* renderer.js: the state handleGenerate reads and writes, as the module   *)
(* is loaded.  history is the list of history items, newest first;         *)
(* requests holds the texts of the api.generateLean calls whose promise is *)
(* not settled, sent counts the calls made.                                *)
(***************************************************************************)
RendererLoaded ==
  [englishInput |-> << >>,
   messages |-> << >>,
   isGenerating |-> FALSE,
   generateBtn |-> [textContent |-> "Generate", disabled |-> FALSE],
   history |-> << >>,
   notification |-> "",
   requests |-> << >>,
   sent |-> 0]

(***************************************************************************)
(* Bounds of the model.                                                    *)
(***************************************************************************)
MaxSentences == 3

(***************************************************************************)
(* Generic helpers.                                                        *)
(***************************************************************************)
Undefined == "undefined"
Null == << >>
Some(x) == <<x>>

Range(s) == {s[k] : k \in 1..Len(s)}

NoDup(s) == \A p, q \in 1..Len(s) : p # q => s[p] # s[q]

\* Set.add on an insertion-ordered JS Set, kept as a duplicate-free sequence.
SetAdd(s, x) == IF x \in Range(s) THEN s ELSE Append(s, x)

RECURSIVE SetAddAll(_, _)
SetAddAll(s, xs) ==
  IF xs = << >> THEN s ELSE SetAddAll(SetAdd(s, Head(xs)), Tail(xs))

\* the elements of s at the positions in idx, in order
RECURSIVE SelectAt(_, _)
SelectAt(s, idx) ==
  IF idx = {} THEN << >>
  ELSE LET k == CHOOSE q \in idx : \A r \in idx : r <= q
       IN Append(SelectAt(s, idx \ {k}), s[k])

\* the least and the greatest position in idx, 0 when idx is empty
FirstOf(idx) == IF idx = {} THEN 0 ELSE CHOOSE q \in idx : \A r \in idx : q <= r
LastOf(idx) == IF idx = {} THEN 0 ELSE CHOOSE q \in idx : \A r \in idx : r <= q

Last(s) == s[Len(s)]

Id(prefix, n) == prefix \o ToString(n)

(***************************************************************************)
(* Characters and tokens.  A token is a string; a symbol outside ASCII is  *)
(* written "#" followed by its name ("#nat" is the blackboard-bold N).     *)
(***************************************************************************)
LowerAlphabet == "abcdefghijklmnopqrstuvwxyz"
UpperAlphabet == "ABCDEFGHIJKLMNOPQRSTUVWXYZ"
DigitAlphabet == "0123456789"

CharAt(t, k) == SubSeq(t, k, k)
CharsOf(t) == {CharAt(t, k) : k \in 1..Len(t)}

LowerChars == CharsOf(LowerAlphabet)
UpperChars == CharsOf(UpperAlphabet)
DigitChars == CharsOf(DigitAlphabet)
LetterChars == LowerChars \cup UpperChars
\* \w of the regular expressions
WordChars == LetterChars \cup DigitChars \cup {"_"}

\* the lower-case letter of each upper-case letter
LowerOf ==
  [c \in UpperChars |->
     CharAt(LowerAlphabet, CHOOSE k \in 1..Len(UpperAlphabet) : CharAt(UpperAlphabet, k) = c)]

\* String.prototype.toLowerCase on a token
RECURSIVE lowerChars(_)
lowerChars(t) ==
  IF t = "" THEN ""
  ELSE LET c == CharAt(t, 1)
       IN (IF c \in UpperChars THEN LowerOf[c] ELSE c) \o lowerChars(SubSeq(t, 2, Len(t)))

toLowerCase(t) ==
  IF \A k \in 1..Len(t) : CharAt(t, k) \notin UpperChars THEN t ELSE lowerChars(t)

lowerText(text) == [k \in 1..Len(text) |-> toLowerCase(text[k])]

\* a word token is a run of word characters, any other token is one symbol
IsWord(t) == t # "" /\ \A k \in 1..Len(t) : CharAt(t, k) \in WordChars

\* tokens written without a blank before them, and without a blank after them
\* white space written out as a token: only at the two ends of a text, the blanks
\* between two tokens being implicit
WhitespaceTokens == {" ", "\n"}

OpenBrackets == {"(", "{"}
CloseBrackets == {")", "}"}
GluedBefore ==
  {".", ",", "?", "!"} \cup OpenBrackets \cup CloseBrackets \cup WhitespaceTokens
GluedAfter == OpenBrackets \cup WhitespaceTokens

\* blank(s) between token k and token k+1 of text
Spaced(text, k) ==
  /\ k + 1 <= Len(text)
  /\ text[k + 1] \notin GluedBefore
  /\ text[k] \notin GluedAfter

\* String.prototype.trim
RECURSIVE trimStart(_)
trimStart(text) ==
  IF text # << >> /\ Head(text) \in WhitespaceTokens THEN trimStart(Tail(text)) ELSE text

RECURSIVE trimEnd(_)
trimEnd(text) ==
  IF text # << >> /\ text[Len(text)] \in WhitespaceTokens
  THEN trimEnd(SubSeq(text, 1, Len(text) - 1))
  ELSE text

trim(text) == trimEnd(trimStart(text))

\* one-letter word tokens, [a-zA-Z] between two word boundaries
SingleLetters == LetterChars

StartsWith(t, p) == Len(t) >= Len(p) /\ SubSeq(t, 1, Len(p)) = p

EndsWith(t, p) == Len(t) >= Len(p) /\ SubSeq(t, Len(t) - Len(p) + 1, Len(t)) = p

Contains(t, p) == \E k \in 1..(Len(t) - Len(p) + 1) : SubSeq(t, k, k + Len(p) - 1) = p

\* the first character of a word token when it is a letter, "" otherwise
FirstLetter(t) == IF t # "" /\ CharAt(t, 1) \in LetterChars THEN CharAt(t, 1) ELSE ""

\* the last character of a word token when it is a letter, "" otherwise
LastLetter(t) ==
  IF t # "" /\ IsWord(t) /\ CharAt(t, Len(t)) \in LetterChars THEN CharAt(t, Len(t)) ELSE ""

\* word tokens that begin with a digit, end with a digit, are made of digits
DigitLeading(t) == t # "" /\ CharAt(t, 1) \in DigitChars
EndsWithDigit(t) == t # "" /\ CharAt(t, Len(t)) \in DigitChars
Numeral(t) == t # "" /\ \A k \in 1..Len(t) : CharAt(t, k) \in DigitChars

\* the number of digits of t from position k on
DigitRun(t, k) ==
  LET stops == {j \in k..Len(t) : CharAt(t, j) \notin DigitChars}
  IN IF stops = {} THEN Len(t) - k + 1 ELSE FirstOf(stops) - k

\* the part of the word token t that /\b([a-zA-Z])_?[\{\(]?(\d+)[\}\)]?/ matches
\* inside t, "" when it matches nothing
SubscriptedMatch(t) ==
  IF Len(t) >= 2 /\ CharAt(t, 1) \in LetterChars
  THEN LET take(from, n) == IF n >= 1 THEN SubSeq(t, 1, from + n - 1) ELSE ""
           digitsFrom(from) == take(from, DigitRun(t, from))
       IN digitsFrom(IF CharAt(t, 2) = "_" THEN 3 ELSE 2)
  ELSE ""

\* the text /\b([a-zA-Z])_?[\{\(]?(\d+)[\}\)]?/ matches from the start of token k
\* of text on, "" when it does not match there
SubscriptedAt(text, k) ==
  LET closing(last, j) ==
        IF last /\ j <= Len(text) /\ text[j] \in CloseBrackets THEN text[j] ELSE ""
      bracketed(t, digits, n) ==
        t \o text[k+1] \o SubSeq(digits, 1, n) \o closing(n = Len(digits), k + 3)
      match(t, inside) ==
        IF inside # ""
        THEN inside \o closing(Len(inside) = Len(t), k + 1)
        ELSE IF /\ FirstLetter(t) # ""
                /\ Len(t) = 1 \/ (Len(t) = 2 /\ CharAt(t, 2) = "_")
                /\ k + 2 <= Len(text)
                /\ text[k+1] \in OpenBrackets
                /\ DigitLeading(text[k+2])
             THEN bracketed(t, text[k+2], DigitRun(text[k+2], 1))
             ELSE ""
  IN match(text[k], SubscriptedMatch(text[k]))

GreekNames == {"alpha", "beta", "gamma", "delta", "epsilon", "theta", "lambda",
               "mu", "sigma", "pi", "phi", "psi", "omega"}

\* the tokens /\bQ\.?E\.?D\.?/i matches
QedMatch(t) ==
  LET l == toLowerCase(t)
  IN \E p \in {"qed", "q.ed", "qe.d", "q.e.d"} : StartsWith(l, p)

(***************************************************************************)
(* nlp/proofTree.js: extractVariablesFromText                              *)
(***************************************************************************)
excludeWords == {"a", "A", "I", "O"}

extractVariablesFromText(text) ==
  LET singleLetters ==
        SelectAt(text, {k \in 1..Len(text) : text[k] \in SingleLetters
                                       /\ text[k] \notin excludeWords})
      matches(found) == SelectAt(found, {k \in 1..Len(found) : found[k] # ""})
      subscripted == matches([k \in 1..Len(text) |-> SubscriptedAt(text, k)])
      greek(low) == SelectAt(low, {k \in 1..Len(low) : low[k] \in GreekNames})
      greekMatches == greek(lowerText(text))
  IN SetAddAll(SetAddAll(SetAddAll(<< >>, singleLetters), subscripted), greekMatches)

(***************************************************************************)
(* nlp/proofTree.js: the builder.  B is the record of the locals of        *)
(* buildProofTree: [tree, stepId, createdSteps, variableScope, caseStack]. *)
(* A sentence entry is [isNull, type, text]; type Undefined stands for an  *)
(* entry without a type, text << >> for a missing or empty text.           *)
(* The entities argument is [isArray, items].                              *)
(***************************************************************************)
Categories ==
  {"induction", "contradiction", "case", "definition", "existential", "universal",
   "implication", "assumption", "step", "conclusion", "arithmetic", "algebraic",
   "set_theory", "other"}

NullSentence == [isNull |-> TRUE, type |-> Undefined, text |-> << >>]
Sentence(ty, tx) == [isNull |-> FALSE, type |-> ty, text |-> tx]

NewTree(ents) ==
  [assumptions |-> << >>, steps |-> << >>, goal |-> Null,
   entities |-> IF ents.isArray THEN ents.items ELSE << >>,
   metadata |-> [proofTechniques |-> << >>, variables |-> << >>, types |-> << >>],
   hasMetadata |-> TRUE]

NewBuilder(ents) ==
  [tree |-> NewTree(ents), stepId |-> 0, createdSteps |-> << >>,
   variableScope |-> << >>, caseStack |-> << >>]

\* Map.has / Map.get / Map.set on variableScope
ScopeHas(scope, v) == v \in DOMAIN scope
ScopeGet(scope, v) == IF ScopeHas(scope, v) THEN scope[v] ELSE << >>
ScopeSet(scope, v, ids) ==
  [w \in (DOMAIN scope) \cup {v} |-> IF w = v THEN ids ELSE scope[w]]

NewStep(id, text, type, technique) ==
  [id |-> id, text |-> text, type |-> type, technique |-> technique,
   dependsOn |-> << >>, variables |-> << >>, hasVariables |-> FALSE,
   caseNumber |-> 0, substeps |-> Null]

PushStep(b, step) ==
  [b EXCEPT !.createdSteps = Append(@, step.id),
            !.tree.steps = Append(@, step)]

\* the id of createdSteps[createdSteps.length - 1], when there is one
LastCreated(b) ==
  IF Len(b.createdSteps) > 0 THEN <<Last(b.createdSteps)>> ELSE << >>

RECURSIVE RegisterAppend(_, _, _)
RegisterAppend(scope, vs, id) ==
  IF vs = << >> THEN scope
  ELSE RegisterAppend(
         IF ~ScopeHas(scope, Head(vs)) THEN ScopeSet(scope, Head(vs), <<id>>)
         ELSE ScopeSet(scope, Head(vs), Append(scope[Head(vs)], id)),
         Tail(vs), id)

\* mutant: the ordinal of the id is the length before the push, without the + 1
handleAssumption_offByOne(s, b) ==
  LET push(assumption) ==
        [b EXCEPT
           !.variableScope = RegisterAppend(@, assumption.variables, assumption.id),
           !.tree.metadata.variables = SetAddAll(@, assumption.variables),
           !.tree.assumptions = Append(@, assumption)]
  IN push([id |-> Id("a", Len(b.tree.assumptions)), text |-> s.text,
           variables |-> extractVariablesFromText(s.text)])

\* mutant: the id list of a variable is replaced, not extended
handleAssumption_replace(s, b) ==
  LET push(assumption) ==
        [b EXCEPT
           !.variableScope =
             [w \in (DOMAIN @) \cup Range(assumption.variables) |->
                IF w \in Range(assumption.variables) THEN <<assumption.id>> ELSE @[w]],
           !.tree.metadata.variables = SetAddAll(@, assumption.variables),
           !.tree.assumptions = Append(@, assumption)]
  IN push([id |-> Id("a", Len(b.tree.assumptions) + 1), text |-> s.text,
           variables |-> extractVariablesFromText(s.text)])

handleAssumption(s, b) ==
  LET push(assumption) ==
        [b EXCEPT
           !.variableScope = RegisterAppend(@, assumption.variables, assumption.id),
           !.tree.metadata.variables = SetAddAll(@, assumption.variables),
           !.tree.assumptions = Append(@, assumption)]
  IN push([id |-> Id("a", Len(b.tree.assumptions) + 1), text |-> s.text,
           variables |-> extractVariablesFromText(s.text)])

\* mutant: a later conclusion also depends on the goal it replaces
handleConclusion_selfRef(s, b) ==
  LET fromSteps == b.createdSteps
      goalDeps == IF Len(fromSteps) = 0
                  THEN [k \in 1..Len(b.tree.assumptions) |-> b.tree.assumptions[k].id]
                  ELSE fromSteps
      previous == IF b.tree.goal # Null THEN <<b.tree.goal[1].id>> ELSE << >>
  IN [b EXCEPT !.tree.goal =
        Some([id |-> "goal", text |-> s.text,
              dependsOn |-> SetAddAll(<< >>, goalDeps \o previous),
              variables |-> extractVariablesFromText(s.text)])]

\* mutant: the first conclusion sentence wins
handleConclusion_keepFirst(s, b) ==
  LET fromSteps == b.createdSteps
      goalDeps == IF Len(fromSteps) = 0
                  THEN [k \in 1..Len(b.tree.assumptions) |-> b.tree.assumptions[k].id]
                  ELSE fromSteps
  IN IF b.tree.goal # Null THEN b
     ELSE [b EXCEPT !.tree.goal =
             Some([id |-> "goal", text |-> s.text,
                   dependsOn |-> SetAddAll(<< >>, goalDeps),
                   variables |-> extractVariablesFromText(s.text)])]

handleConclusion(s, b) ==
  LET fromSteps == b.createdSteps
      goalDeps == IF Len(fromSteps) = 0
                  THEN [k \in 1..Len(b.tree.assumptions) |-> b.tree.assumptions[k].id]
                  ELSE fromSteps
  IN [b EXCEPT !.tree.goal =
        Some([id |-> "goal", text |-> s.text,
              dependsOn |-> SetAddAll(<< >>, goalDeps),
              variables |-> extractVariablesFromText(s.text)])]

\* the letter captured by the first matching pattern, "" for null
extractInductionVariable(text) ==
  LET \* /\binduction\s+on\s+([a-zA-Z])/i : the first letter of the next word
      p1(low) == FirstOf({k \in 1..Len(text) : low[k] = "induction" /\ Spaced(text, k)
                   /\ k + 2 <= Len(text) /\ low[k+1] = "on" /\ Spaced(text, k+1)
                   /\ FirstLetter(text[k+2]) # ""})
      \* /\bprove\s+by\s+induction\s+(?:that\s+)?.*\b([a-zA-Z])\b/i : greedy .*,
      \* so the last one-letter word after "prove by induction "
      p2(low) == FirstOf({k \in 1..Len(text) : low[k] = "prove" /\ Spaced(text, k)
                   /\ k + 2 <= Len(text) /\ low[k+1] = "by" /\ Spaced(text, k+1)
                   /\ low[k+2] = "induction" /\ Spaced(text, k+2)
                   /\ \E j \in (k+3)..Len(text) : text[j] \in SingleLetters})
      p2var(p) == LastOf({j \in 1..Len(text) : j >= p + 3 /\ text[j] \in SingleLetters})
      \* /\bfor\s+all\s+([a-zA-Z])\s+in\s+N/i, N the blackboard-bold symbol "#nat"
      p3(low) == FirstOf({k \in 1..Len(text) : low[k] = "for" /\ Spaced(text, k)
                   /\ k + 4 <= Len(text) /\ low[k+1] = "all" /\ Spaced(text, k+1)
                   /\ text[k+2] \in SingleLetters /\ Spaced(text, k+2)
                   /\ low[k+3] = "in" /\ Spaced(text, k+3) /\ text[k+4] = "#nat"})
      first(m1, m2, m3) ==
        IF m1 # 0
        THEN FirstLetter(text[m1+2])
        ELSE IF m2 # 0 THEN text[p2var(m2)]
        ELSE IF m3 # 0 THEN text[m3+2]
        ELSE ""
      match(low) == first(p1(low), p2(low), p3(low))
  IN match(lowerText(text))

\* mutant: the ids are not deduplicated
handleInduction_noDedup(s, b, id) ==
  LET fromScope(inductionVar) ==
        IF inductionVar # "" /\ ScopeHas(b.variableScope, inductionVar)
        THEN ScopeGet(b.variableScope, inductionVar) ELSE << >>
  IN PushStep(b,
       [NewStep(Id("s", id), s.text, "induction", "induction") EXCEPT
          !.dependsOn = fromScope(extractInductionVariable(s.text)) \o LastCreated(b),
          !.substeps = Some([baseCase |-> Null, inductiveStep |-> Null])])

handleInduction(s, b, id) ==
  LET fromScope(inductionVar) ==
        IF inductionVar # "" /\ ScopeHas(b.variableScope, inductionVar)
        THEN ScopeGet(b.variableScope, inductionVar) ELSE << >>
  IN PushStep(b,
       [NewStep(Id("s", id), s.text, "induction", "induction") EXCEPT
          !.dependsOn = SetAddAll(<< >>, fromScope(extractInductionVariable(s.text))
                                           \o LastCreated(b)),
          !.substeps = Some([baseCase |-> Null, inductiveStep |-> Null])])

\* Math.min
Min(p, q) == IF p < q THEN p ELSE q

contradictionLookback == 3

\* mutant: the step depends on every step created so far
handleContradiction_allSteps(s, b, id) ==
  PushStep(b, [NewStep(Id("s", id), s.text, "contradiction", "proof_by_contradiction")
                 EXCEPT !.dependsOn = b.createdSteps])

handleContradiction(s, b, id) ==
  LET lookback == Min(contradictionLookback, Len(b.createdSteps))
      step == [NewStep(Id("s", id), s.text, "contradiction", "proof_by_contradiction")
                 EXCEPT !.dependsOn =
                   SubSeq(b.createdSteps, Len(b.createdSteps) - lookback + 1,
                          Len(b.createdSteps))]
  IN PushStep(b, step)

\* mutant: the case number is the depth of the stack, without the + 1
handleCase_stackDepth(s, b, id) ==
  LET push(step) == [PushStep(b, step) EXCEPT !.caseStack = Append(@, step.id)]
  IN push([NewStep(Id("s", id), s.text, "case", "case_analysis") EXCEPT
             !.dependsOn = LastCreated(b),
             !.caseNumber = Len(b.caseStack)])

handleCase(s, b, id) ==
  LET push(step) == [PushStep(b, step) EXCEPT !.caseStack = Append(@, step.id)]
  IN push([NewStep(Id("s", id), s.text, "case", "case_analysis") EXCEPT
             !.dependsOn = LastCreated(b),
             !.caseNumber = Len(b.caseStack) + 1])

RECURSIVE RegisterNew(_, _, _)
RegisterNew(scope, vs, id) ==
  IF vs = << >> THEN scope
  ELSE RegisterNew(
         IF ~ScopeHas(scope, Head(vs)) THEN ScopeSet(scope, Head(vs), <<id>>)
         ELSE scope,
         Tail(vs), id)

\* mutant: the variables of the step are not entered in variableScope
handleExistential_noRegister(s, b, id) ==
  LET push(step) ==
        [PushStep(b, step) EXCEPT
           !.tree.metadata.variables = SetAddAll(@, step.variables)]
  IN push([NewStep(Id("s", id), s.text, "existential", "existential_intro")
             EXCEPT !.variables = extractVariablesFromText(s.text),
                    !.hasVariables = TRUE,
                    !.dependsOn = LastCreated(b)])

\* mutant: the step id is appended to the list of a variable already in scope
handleExistential_append(s, b, id) ==
  LET push(step) ==
        [PushStep(b, step) EXCEPT
           !.variableScope = RegisterAppend(b.variableScope, step.variables, step.id),
           !.tree.metadata.variables = SetAddAll(@, step.variables)]
  IN push([NewStep(Id("s", id), s.text, "existential", "existential_intro")
             EXCEPT !.variables = extractVariablesFromText(s.text),
                    !.hasVariables = TRUE,
                    !.dependsOn = LastCreated(b)])

handleExistential(s, b, id) ==
  LET push(step) ==
        [PushStep(b, step) EXCEPT
           !.variableScope = RegisterNew(b.variableScope, step.variables, step.id),
           !.tree.metadata.variables = SetAddAll(@, step.variables)]
  IN push([NewStep(Id("s", id), s.text, "existential", "existential_intro")
             EXCEPT !.variables = extractVariablesFromText(s.text),
                    !.hasVariables = TRUE,
                    !.dependsOn = LastCreated(b)])

\* mutant: the step depends on itself as well
handleUniversal_selfRef(s, b, id) ==
  PushStep(b, [NewStep(Id("s", id), s.text, "universal", "universal_intro") EXCEPT
                 !.dependsOn = LastCreated(b) \o <<Id("s", id)>>])

handleUniversal(s, b, id) ==
  LET step == [NewStep(Id("s", id), s.text, "universal", "universal_intro") EXCEPT
                 !.dependsOn = LastCreated(b)]
  IN PushStep(b, step)

\* referencePatterns[0]: /\b(by|from|using)\s+(step|assumption|equation)\s+(\d+)/gi
referencePattern1(low) ==
  \E k \in 1..Len(low) :
    /\ low[k] \in {"by", "from", "using"} /\ Spaced(low, k)
    /\ k + 2 <= Len(low)
    /\ low[k+1] \in {"step", "assumption", "equation"} /\ Spaced(low, k+1)
    /\ DigitLeading(low[k+2])

\* referencePatterns[1]: /\b(above|previous|earlier)\s+(step|statement|equation)/gi
referencePattern2(low) ==
  \E k \in 1..Len(low) :
    /\ low[k] \in {"above", "previous", "earlier"} /\ Spaced(low, k)
    /\ \E w \in {"step", "statement", "equation"} : StartsWith(low[k+1], w)

\* the ids of the assumptions that record a variable of the set vs, in tree order
AssumptionsWith(assumptions, vs) ==
  LET hit == SelectAt(assumptions,
                      {k \in 1..Len(assumptions) :
                         Range(assumptions[k].variables) \cap vs # {}})
  IN [k \in 1..Len(hit) |-> hit[k].id]

RECURSIVE Flatten(_)
Flatten(ss) == IF ss = << >> THEN << >> ELSE Head(ss) \o Flatten(Tail(ss))

\* inferDependencies lines 259-284: the candidates of the back-reference phrases,
\* of VariableScope and of the entities of kind variable, in this order
dependencyCandidates(sentence, b, ents) ==
  LET byReference(lower) ==
        IF (referencePattern1(lower) \/ referencePattern2(lower))
        THEN LastCreated(b) ELSE << >>
      byScope(sentenceVars) ==
        Flatten([k \in 1..Len(sentenceVars) |->
                   ScopeGet(b.variableScope, sentenceVars[k])])
      byEntity(sentenceVars) ==
        IF ents.isArray
        THEN Flatten([k \in 1..Len(ents.items) |->
               IF ents.items[k].type = "variable"
                  /\ ents.items[k].name \in Range(sentenceVars)
               THEN AssumptionsWith(b.tree.assumptions, {ents.items[k].name})
               ELSE << >>])
        ELSE << >>
      candidates(lower, sentenceVars) ==
        SetAddAll(<< >>, byReference(lower) \o byScope(sentenceVars)
                           \o byEntity(sentenceVars))
  IN candidates(lowerText(sentence.text), extractVariablesFromText(sentence.text))

\* inferDependencies lines 286-288
stepFallback(deps, b) ==
  IF Len(deps) = 0 /\ Len(b.createdSteps) > 0
  THEN SetAddAll(deps, LastCreated(b)) ELSE deps

\* mutant: the fallback takes the last assumption instead of the first
assumptionFallback_last(sentence, deps, b) ==
  LET add(matching) ==
        IF Len(matching) > 0 THEN SetAddAll(deps, matching)
        ELSE SetAddAll(deps, <<Last(b.tree.assumptions).id>>)
  IN IF Len(deps) = 0 /\ Len(b.tree.assumptions) > 0
     THEN add(AssumptionsWith(b.tree.assumptions,
                              Range(extractVariablesFromText(sentence.text))))
     ELSE deps

\* inferDependencies lines 290-302
assumptionFallback(sentence, deps, b) ==
  LET add(matching) ==
        IF Len(matching) > 0 THEN SetAddAll(deps, matching)
        ELSE SetAddAll(deps, <<b.tree.assumptions[1].id>>)
  IN IF Len(deps) = 0 /\ Len(b.tree.assumptions) > 0
     THEN add(AssumptionsWith(b.tree.assumptions,
                              Range(extractVariablesFromText(sentence.text))))
     ELSE deps

\* mutant: the assumption fallback adds the first assumption's id without asking
\* whether the tree has an assumption
inferDependencies_noLengthCheck(sentence, b, ents) ==
  LET first(deps) == IF Len(deps) = 0 THEN <<Id("a", 1)>> ELSE deps
  IN first(stepFallback(dependencyCandidates(sentence, b, ents), b))

\* mutant: the step fallback takes createdSteps[0] instead of the last step
inferDependencies_firstStep(sentence, b, ents) ==
  LET first(deps) ==
        IF Len(deps) = 0 /\ Len(b.createdSteps) > 0 THEN <<b.createdSteps[1]>> ELSE deps
  IN assumptionFallback(sentence, first(dependencyCandidates(sentence, b, ents)), b)

\* mutant: the assumption fallback forgets the first assumption when no
\* assumption shares a variable with the sentence
inferDependencies_noFirstAssumption(sentence, b, ents) ==
  LET matching ==
        AssumptionsWith(b.tree.assumptions, Range(extractVariablesFromText(sentence.text)))
      orMatching(deps) == IF Len(deps) = 0 THEN matching ELSE deps
  IN orMatching(stepFallback(dependencyCandidates(sentence, b, ents), b))

\* mutant: the step fallback does not ask whether a candidate was found
inferDependencies_alwaysPrevious(sentence, b, ents) ==
  assumptionFallback(sentence,
    SetAddAll(dependencyCandidates(sentence, b, ents), LastCreated(b)), b)

inferDependencies(sentence, b, ents) ==
  assumptionFallback(sentence,
    stepFallback(dependencyCandidates(sentence, b, ents), b), b)

\* mutant: the variables of a generic step are entered in metadata.variables
handleStep_recordsVariables(s, b, ents, id) ==
  LET push(step) ==
        [PushStep(b, step) EXCEPT !.tree.metadata.variables = SetAddAll(@, step.variables)]
  IN push([NewStep(Id("s", id), s.text,
                   IF s.type # Undefined THEN s.type ELSE "step", Undefined)
             EXCEPT !.variables = extractVariablesFromText(s.text),
                    !.hasVariables = TRUE,
                    !.dependsOn = inferDependencies(s, b, ents)])

handleStep(s, b, ents, id) ==
  LET step == [NewStep(Id("s", id), s.text,
                       IF s.type # Undefined THEN s.type ELSE "step", Undefined)
                 EXCEPT !.variables = extractVariablesFromText(s.text),
                        !.hasVariables = TRUE,
                        !.dependsOn = inferDependencies(s, b, ents)]
  IN PushStep(b, step)

(***************************************************************************)
(* validateTree.  The traversal state vs is [visited, recursionStack].     *)
(* hasCycle returns [found, visited, recursionStack]; when it returns true *)
(* the ids on the path stay in recursionStack, as in the source.           *)
(***************************************************************************)
\* [...tree.assumptions, ...tree.steps, tree.goal].find(n => n && n.id === nodeId)
\* and its dependsOn (none for an assumption or a missing node)
NodeDeps(t, nodeId) ==
  IF \E k \in 1..Len(t.assumptions) : t.assumptions[k].id = nodeId THEN << >>
  ELSE IF \E k \in 1..Len(t.steps) : t.steps[k].id = nodeId
  THEN t.steps[CHOOSE k \in 1..Len(t.steps) :
                 t.steps[k].id = nodeId
                 /\ \A j \in 1..(k-1) : t.steps[j].id # nodeId].dependsOn
  ELSE IF t.goal # Null /\ t.goal[1].id = nodeId THEN t.goal[1].dependsOn
  ELSE << >>

RECURSIVE hasCycle(_, _, _)
RECURSIVE hasCycleDeps(_, _, _)
hasCycleDeps(t, deps, vs) ==
  IF deps = << >> THEN [found |-> FALSE, visited |-> vs.visited,
                        recursionStack |-> vs.recursionStack]
  ELSE LET r == hasCycle(t, Head(deps), vs)
       IN IF r.found THEN r ELSE hasCycleDeps(t, Tail(deps), r)

\* mutant: recursionStack.delete(nodeId) is left out
hasCycle_noPop(t, nodeId, vs) ==
  IF nodeId \in vs.recursionStack
  THEN [found |-> TRUE, visited |-> vs.visited, recursionStack |-> vs.recursionStack]
  ELSE IF nodeId \in vs.visited
  THEN [found |-> FALSE, visited |-> vs.visited, recursionStack |-> vs.recursionStack]
  ELSE hasCycleDeps(t, NodeDeps(t, nodeId),
         [visited |-> vs.visited \cup {nodeId},
          recursionStack |-> vs.recursionStack \cup {nodeId}])

hasCycle(t, nodeId, vs) ==
  IF nodeId \in vs.recursionStack
  THEN [found |-> TRUE, visited |-> vs.visited, recursionStack |-> vs.recursionStack]
  ELSE IF nodeId \in vs.visited
  THEN [found |-> FALSE, visited |-> vs.visited, recursionStack |-> vs.recursionStack]
  ELSE LET r == hasCycleDeps(t, NodeDeps(t, nodeId),
                  [visited |-> vs.visited \cup {nodeId},
                   recursionStack |-> vs.recursionStack \cup {nodeId}])
       IN IF r.found THEN r
          ELSE [r EXCEPT !.recursionStack = @ \ {nodeId}]

\* mutant: a step on a cycle is warned about but keeps its dependsOn
RECURSIVE validateSteps_warnOnly(_, _, _, _)
validateSteps_warnOnly(t, k, vs, warnings) ==
  IF k > Len(t.steps) THEN [tree |-> t, vs |-> vs, warnings |-> warnings]
  ELSE LET r == hasCycle(t, t.steps[k].id, vs)
       IN validateSteps_warnOnly(t, k + 1, r,
            IF r.found THEN Append(warnings, t.steps[k].id) ELSE warnings)

\* tree.steps.forEach(step => ...), from step k on; returns [tree, vs, warnings]
RECURSIVE validateSteps(_, _, _, _)
validateSteps(t, k, vs, warnings) ==
  IF k > Len(t.steps) THEN [tree |-> t, vs |-> vs, warnings |-> warnings]
  ELSE LET r == hasCycle(t, t.steps[k].id, vs)
       IN IF r.found
          THEN validateSteps([t EXCEPT !.steps[k].dependsOn = << >>], k + 1, r,
                             Append(warnings, t.steps[k].id))
          ELSE validateSteps(t, k + 1, r, warnings)

validateTree(t) ==
  LET goalCycle(afterSteps) ==
        IF afterSteps.tree.goal # Null
        THEN hasCycle(afterSteps.tree, "goal", afterSteps.vs).found
        ELSE FALSE
      checkGoal(afterSteps) ==
        [tree |-> afterSteps.tree,
         warnings |-> IF goalCycle(afterSteps) THEN Append(afterSteps.warnings, "goal")
                      ELSE afterSteps.warnings]
  IN checkGoal(validateSteps(t, 1, [found |-> FALSE, visited |-> {},
                                    recursionStack |-> {}], << >>))

(***************************************************************************)
(* buildProofTree: one iteration of the for loop (lines 39-77).            *)
(***************************************************************************)
GenericCategories ==
  {"implication", "definition", "arithmetic", "algebraic", "set_theory", "step",
   "other"}

\* mutant: an entry without text is not skipped
Skipped_nullOnly(s) == s.isNull

Skipped(s) == s.isNull \/ s.text = << >>

WithTechnique(s, b) ==
  IF s.type # Undefined
  THEN [b EXCEPT !.tree.metadata.proofTechniques = SetAdd(@, s.type)]
  ELSE b

NextId(b) == [b EXCEPT !.stepId = @ + 1]

processSentence(s, b, ents) ==
  IF Skipped(s) THEN b
  ELSE LET b1 == WithTechnique(s, b)
           b2 == NextId(b1)
       IN CASE s.type = "assumption" -> handleAssumption(s, b1)
            [] s.type = "conclusion" -> handleConclusion(s, b1)
            [] s.type = "induction" -> handleInduction(s, b2, b2.stepId)
            [] s.type = "contradiction" -> handleContradiction(s, b2, b2.stepId)
            [] s.type = "case" -> handleCase(s, b2, b2.stepId)
            [] s.type = "existential" -> handleExistential(s, b2, b2.stepId)
            [] s.type = "universal" -> handleUniversal(s, b2, b2.stepId)
            [] OTHER -> handleStep(s, b2, ents, b2.stepId)

RECURSIVE processAll(_, _, _)
processAll(ss, b, ents) ==
  IF ss = << >> THEN b ELSE processAll(Tail(ss), processSentence(Head(ss), b, ents), ents)

\* the tree a non-array `sentences` argument gets (line 19): no metadata
EmptyTree ==
  [assumptions |-> << >>, steps |-> << >>, goal |-> Null, entities |-> << >>,
   metadata |-> [proofTechniques |-> << >>, variables |-> << >>, types |-> << >>],
   hasMetadata |-> FALSE]

\* buildProofTree on an array of entries: the loop, then validateTree
buildProofTree(ss, ents) ==
  validateTree(processAll(ss, NewBuilder(ents), ents).tree).tree

(***************************************************************************)
(* Specification Spec: buildProofTree run on any array of classified       *)
(* sentences, one loop iteration per action, then validateTree and return. *)
(***************************************************************************)
TPlain == <<"it", "follows">>
TVarX == <<"x", "holds">>
TVarY == <<"y", "holds">>
TBackRef == <<"by", "the", "previous", "step">>
TInductOnX == <<"by", "induction", "on", "x">>

BuildSentences ==
  {NullSentence, Sentence("assumption", << >>)}
  \cup {Sentence("assumption", tx) : tx \in {TVarX, TVarY}}
  \cup {Sentence("conclusion", tx) : tx \in {TPlain, TVarX}}
  \cup {Sentence("induction", TInductOnX), Sentence("existential", TVarX)}
  \cup {Sentence(ty, TPlain) : ty \in {"contradiction", "case", "universal"}}
  \cup {Sentence("step", tx) : tx \in {TPlain, TVarX, TBackRef}}
  \cup {Sentence(ty, TPlain) :
          ty \in {"implication", "arithmetic", "set_theory", "other"}}
  \cup {Sentence("definition", TVarY), Sentence("algebraic", TVarX),
        Sentence(Undefined, TVarX)}

Entity(name, type) == [name |-> name, type |-> type, examples |-> << >>]

EntityInputs ==
  { [isArray |-> FALSE, items |-> << >>],
    [isArray |-> TRUE, items |-> <<Entity("x", "variable"), Entity("y", "function")>>] }

Cur ==
  [tree |-> tree, stepId |-> stepId, createdSteps |-> createdSteps,
   variableScope |-> variableScope, caseStack |-> caseStack]

SetBuilder(b) ==
  /\ tree' = b.tree
  /\ stepId' = b.stepId
  /\ createdSteps' = b.createdSteps
  /\ variableScope' = b.variableScope
  /\ caseStack' = b.caseStack
  /\ renderer' = renderer

Init ==
  /\ pc = "loop"
  /\ sentences = << >>
  /\ entities \in EntityInputs
  /\ tree = NewTree(entities)
  /\ stepId = 0
  /\ createdSteps = << >>
  /\ variableScope = << >>
  /\ caseStack = << >>
  /\ renderer = RendererLoaded
  /\ input = << >>
  /\ output = << >>

\* one iteration of the loop on the entry s
Iterate(s) ==
  /\ pc = "loop"
  /\ Len(sentences) < MaxSentences
  /\ sentences' = Append(sentences, s)
  /\ SetBuilder(processSentence(s, Cur, entities))
  /\ UNCHANGED <<pc, entities, input, output>>

SkipEntry == \E s \in BuildSentences : Skipped(s) /\ Iterate(s)

HandleAssumption ==
  \E s \in BuildSentences : ~Skipped(s) /\ s.type = "assumption" /\ Iterate(s)

HandleConclusion ==
  \E s \in BuildSentences : ~Skipped(s) /\ s.type = "conclusion" /\ Iterate(s)

HandleInduction ==
  \E s \in BuildSentences : ~Skipped(s) /\ s.type = "induction" /\ Iterate(s)

HandleContradiction ==
  \E s \in BuildSentences : ~Skipped(s) /\ s.type = "contradiction" /\ Iterate(s)

HandleCase ==
  \E s \in BuildSentences : ~Skipped(s) /\ s.type = "case" /\ Iterate(s)

HandleExistential ==
  \E s \in BuildSentences : ~Skipped(s) /\ s.type = "existential" /\ Iterate(s)

HandleUniversal ==
  \E s \in BuildSentences : ~Skipped(s) /\ s.type = "universal" /\ Iterate(s)

HandleStep ==
  \E s \in BuildSentences :
    /\ ~Skipped(s)
    /\ s.type \notin {"assumption", "conclusion", "induction", "contradiction",
                      "case", "existential", "universal"}
    /\ Iterate(s)

\* lines 79-85: the loop is over; validateTree, return
Return ==
  /\ pc = "loop"
  /\ pc' = "done"
  /\ LET return(validated) == tree' = validated.tree /\ output' = validated.warnings
     IN return(validateTree(tree))
  /\ UNCHANGED <<sentences, entities, stepId, createdSteps, variableScope,
                 caseStack, input, renderer>>

Next ==
  \/ SkipEntry
  \/ HandleAssumption
  \/ HandleConclusion
  \/ HandleInduction
  \/ HandleContradiction
  \/ HandleCase
  \/ HandleExistential
  \/ HandleUniversal
  \/ HandleStep
  \/ Return

Spec == Init /\ [][Next]_vars

(***************************************************************************)
(* Properties of buildProofTree (specification Spec).                      *)
(***************************************************************************)
Returned == pc = "done"

SpecialCategories ==
  {"assumption", "conclusion", "induction", "contradiction", "case", "existential",
   "universal"}

IsAssumptionEntry(s) == ~Skipped(s) /\ s.type = "assumption"
IsConclusionEntry(s) == ~Skipped(s) /\ s.type = "conclusion"
IsStepEntry(s) == ~Skipped(s) /\ s.type \notin {"assumption", "conclusion"}
IsGenericEntry(s) == ~Skipped(s) /\ s.type \notin SpecialCategories

\* how many of the entries before the j-th satisfy Test
CountBefore(j, Test(_)) == Cardinality({q \in 1..(j-1) : Test(sentences[q])})

\* the position in the input of the sentence that made the k-th step
StepSrc(k) ==
  CHOOSE j \in 1..Len(sentences) :
    IsStepEntry(sentences[j]) /\ CountBefore(j, IsStepEntry) = k - 1

\* the variables that assumption and existential sentences before the j-th put in
\* VariableScope
ScopedBefore(j) ==
  UNION {Range(extractVariablesFromText(sentences[q].text)) :
           q \in {r \in 1..(j-1) : IsAssumptionEntry(sentences[r])
                                    \/ (~Skipped(sentences[r])
                                        /\ sentences[r].type = "existential")}}

HasBackReference(text) ==
  referencePattern1(lowerText(text)) \/ referencePattern2(lowerText(text))

StepIds(t) == {t.steps[k].id : k \in 1..Len(t.steps)}
AssumptionIdSet(t) == {t.assumptions[k].id : k \in 1..Len(t.assumptions)}
GoalIds(t) == IF t.goal = Null THEN {} ELSE {t.goal[1].id}

\* the dependency edges among the steps and the goal
DepEdges(t) ==
  LET nodes == StepIds(t) \cup GoalIds(t)
      stepEdges == UNION {{<<t.steps[k].id, d>> :
                             d \in Range(t.steps[k].dependsOn) \cap nodes} :
                          k \in 1..Len(t.steps)}
      goalEdges == IF t.goal = Null THEN {}
                   ELSE {<<"goal", d>> : d \in Range(t.goal[1].dependsOn) \cap nodes}
  IN stepEdges \cup goalEdges

RECURSIVE ReachFrom(_, _)
ReachFrom(front, edges) ==
  LET more == front \cup {e[2] : e \in {f \in edges : f[1] \in front}}
  IN IF more = front THEN front ELSE ReachFrom(more, edges)

OnCycle(n, edges) == n \in ReachFrom({e[2] : e \in {f \in edges : f[1] = n}}, edges)

Acyclic(t) == \A n \in StepIds(t) \cup GoalIds(t) : ~OnCycle(n, DepEdges(t))

\* C1: the dependency graph of the returned tree, restricted to the steps and the
\* goal, contains no cycle.
C1_Acyclic == Returned => Acyclic(tree)

C1_Witness ==
  /\ Returned
  /\ tree.goal # Null
  /\ Len(tree.steps) >= 2
  /\ Len(tree.goal[1].dependsOn) >= 2
  /\ \E k \in 1..Len(tree.steps) : Len(tree.steps[k].dependsOn) > 0

\* C2: in the returned tree every id in the dependsOn of a step or of the goal is
\* the id of an assumption, a step or the goal of that tree.
C2_DepsExist ==
  Returned =>
    LET ids == AssumptionIdSet(tree) \cup StepIds(tree) \cup GoalIds(tree)
    IN /\ \A k \in 1..Len(tree.steps) : Range(tree.steps[k].dependsOn) \subseteq ids
       /\ tree.goal # Null => Range(tree.goal[1].dependsOn) \subseteq ids

C2_Witness ==
  /\ Returned
  /\ tree.goal # Null /\ Len(tree.goal[1].dependsOn) > 0
  /\ \E k \in 1..Len(tree.steps) :
       Range(tree.steps[k].dependsOn) \cap AssumptionIdSet(tree) # {}

\* C3: in the returned tree the node ids are pairwise distinct, the k-th assumption
\* has id "a"+k and the k-th step id "s"+k (entries without text use no ordinal),
\* and assumptions and steps are in the order of their source sentences.
C3_IdsAndOrder ==
  Returned =>
    LET asrc == SelectSeq(sentences, IsAssumptionEntry)
        ssrc == SelectSeq(sentences, IsStepEntry)
    IN /\ \A k \in 1..Len(tree.assumptions) : tree.assumptions[k].id = Id("a", k)
       /\ \A k \in 1..Len(tree.steps) : tree.steps[k].id = Id("s", k)
       /\ Cardinality(AssumptionIdSet(tree) \cup StepIds(tree) \cup GoalIds(tree))
            = Len(tree.assumptions) + Len(tree.steps)
              + (IF tree.goal = Null THEN 0 ELSE 1)
       /\ Len(tree.assumptions) = Len(asrc)
       /\ \A k \in 1..Len(asrc) : tree.assumptions[k].text = asrc[k].text
       /\ Len(tree.steps) = Len(ssrc)
       /\ \A k \in 1..Len(ssrc) :
            /\ tree.steps[k].text = ssrc[k].text
            /\ tree.steps[k].type =
                 (IF ssrc[k].type = Undefined THEN "step" ELSE ssrc[k].type)

C3_Witness ==
  /\ Returned
  /\ Len(sentences) = MaxSentences
  /\ Skipped(sentences[1])
  /\ Len(tree.assumptions) = 1
  /\ Len(tree.steps) = 1
  /\ IsStepEntry(sentences[2])

\* the case of C4 for the k-th step: a generic sentence without back-reference
\* phrase and without variable in VariableScope, processed when the tree has no
\* assumption and at least one step
FallbackCase(k) ==
  LET j == StepSrc(k)
  IN /\ IsGenericEntry(sentences[j])
     /\ ~HasBackReference(sentences[j].text)
     /\ Range(extractVariablesFromText(sentences[j].text)) \cap ScopedBefore(j) = {}
     /\ CountBefore(j, IsAssumptionEntry) = 0
     /\ k > 1

\* C4: a generic step in the case FallbackCase depends on exactly the step created
\* immediately before it, when created and in the returned tree.
C4_FallbackToPrevious ==
  \A k \in 1..Len(tree.steps) :
    FallbackCase(k) => tree.steps[k].dependsOn = <<tree.steps[k-1].id>>

C4_Witness ==
  /\ Returned
  /\ Len(tree.steps) = MaxSentences
  /\ FallbackCase(Len(tree.steps))

\* C5: a generic step of the returned tree has an empty dependsOn only if no
\* assumption and no step existed when its sentence was processed, and its
\* dependsOn has no duplicates.
C5_EmptyOnlyWhenFirst ==
  Returned =>
    \A k \in 1..Len(tree.steps) :
      IsGenericEntry(sentences[StepSrc(k)]) =>
        /\ NoDup(tree.steps[k].dependsOn)
        /\ tree.steps[k].dependsOn = << >> =>
             k = 1 /\ CountBefore(StepSrc(k), IsAssumptionEntry) = 0

C5_Witness ==
  /\ Returned
  /\ Len(tree.steps) >= 2
  /\ IsGenericEntry(sentences[StepSrc(1)]) /\ tree.steps[1].dependsOn = << >>
  /\ IsGenericEntry(sentences[StepSrc(2)]) /\ Len(tree.steps[2].dependsOn) > 0

\* the position of the last conclusion sentence with text, 0 when there is none
LastConclusion ==
  LastOf({j \in 1..Len(sentences) : IsConclusionEntry(sentences[j])})

\* C6 as stated: the goal is null iff no conclusion sentence with text was
\* processed; otherwise its id is "goal", its text that of the last conclusion
\* sentence, and its dependsOn the ids of all the steps of the returned tree if it
\* has any, else the ids of all its assumptions.
C6_GoalDependsOnAll ==
  Returned =>
    /\ (tree.goal = Null) = (LastConclusion = 0)
    /\ tree.goal # Null =>
         /\ tree.goal[1].id = "goal"
         /\ tree.goal[1].text = sentences[LastConclusion].text
         /\ Range(tree.goal[1].dependsOn) =
              (IF Len(tree.steps) > 0 THEN StepIds(tree) ELSE AssumptionIdSet(tree))

\* C6 amended: ... and its dependsOn the ids of all the steps created before the
\* last conclusion sentence was processed if there is one, else the ids of all the
\* assumptions created before it.
C6_GoalDependsOnEarlier ==
  Returned =>
    /\ (tree.goal = Null) = (LastConclusion = 0)
    /\ tree.goal # Null =>
         LET nSteps == CountBefore(LastConclusion, IsStepEntry)
             nAssumptions == CountBefore(LastConclusion, IsAssumptionEntry)
         IN /\ tree.goal[1].id = "goal"
            /\ tree.goal[1].text = sentences[LastConclusion].text
            /\ NoDup(tree.goal[1].dependsOn)
            /\ Range(tree.goal[1].dependsOn) =
                 (IF nSteps > 0 THEN {Id("s", q) : q \in 1..nSteps}
                  ELSE {Id("a", q) : q \in 1..nAssumptions})

C6_Witness ==
  /\ Returned
  /\ Len(sentences) = MaxSentences
  /\ IsConclusionEntry(sentences[1])
  /\ IsStepEntry(sentences[2])
  /\ IsConclusionEntry(sentences[3])
  /\ sentences[1].text # sentences[3].text

(***************************************************************************)
(* Specification SpecLongProof: buildProofTree run on longer arrays of     *)
(* sentences of a smaller vocabulary, one loop iteration per action.       *)
(***************************************************************************)
MaxLongSentences == 5

TBackRefX == <<"by", "the", "previous", "step", "x", "holds">>

LongSentences ==
  {Sentence("assumption", TVarX), Sentence("assumption", TVarY),
   Sentence("existential", TVarX), Sentence("contradiction", TPlain),
   Sentence("step", TBackRefX), Sentence("step", TVarY), Sentence("step", TPlain)}

InitLongProof ==
  /\ Init
  /\ entities.isArray

\* one iteration of the loop on the entry s
IterateLong(s) ==
  /\ pc = "loop"
  /\ Len(sentences) < MaxLongSentences
  /\ sentences' = Append(sentences, s)
  /\ SetBuilder(processSentence(s, Cur, entities))
  /\ UNCHANGED <<pc, entities, input, output>>

LongAssumption == \E s \in LongSentences : s.type = "assumption" /\ IterateLong(s)

LongExistential == \E s \in LongSentences : s.type = "existential" /\ IterateLong(s)

LongContradiction == \E s \in LongSentences : s.type = "contradiction" /\ IterateLong(s)

LongStep == \E s \in LongSentences : s.type = "step" /\ IterateLong(s)

NextLongProof ==
  \/ LongAssumption
  \/ LongExistential
  \/ LongContradiction
  \/ LongStep
  \/ Return

SpecLongProof == InitLongProof /\ [][NextLongProof]_vars

\* the loop iteration under way adds a step; the step it adds and its sentence
StepAdded == Len(tree'.steps) = Len(tree.steps) + 1
AddedStep == Last(tree'.steps)
AddedSentence == Last(sentences')

\* the id of the most recent step before the iteration, if any
PreviousStep == IF tree.steps = << >> THEN {} ELSE {Last(tree.steps).id}

\* C15: the dependsOn of a generic step is the result of the reference procedure:
\* (1) the most recent step if the sentence has a back-reference phrase, (2) the
\* ids VariableScope records for the variables of the sentence, (3) the assumptions
\* that record a sentence variable that is an entity of kind variable, all three
\* together; if that is empty the most recent step; if still empty the assumptions
\* that share a variable with the sentence, or the first assumption when none does.
C15_ReferenceProcedure ==
  [][ (StepAdded /\ AddedSentence.type \notin SpecialCategories) =>
        LET sentenceVars == Range(extractVariablesFromText(AddedSentence.text))
            sharing(vs) == {tree.assumptions[k].id :
                              k \in {q \in 1..Len(tree.assumptions) :
                                       Range(tree.assumptions[q].variables) \cap vs # {}}}
            entityVars == IF entities.isArray
                          THEN {entities.items[k].name :
                                  k \in {q \in 1..Len(entities.items) :
                                           entities.items[q].type = "variable"}}
                          ELSE {}
            rule1 == IF HasBackReference(AddedSentence.text) THEN PreviousStep ELSE {}
            rule2 == UNION {Range(variableScope[v]) :
                              v \in sentenceVars \cap DOMAIN variableScope}
            rule3 == sharing(sentenceVars \cap entityVars)
            candidates == rule1 \cup rule2 \cup rule3
            rule4 == IF candidates = {} THEN PreviousStep ELSE candidates
            rule5 == IF rule4 # {} \/ tree.assumptions = << >> THEN rule4
                     ELSE IF sharing(sentenceVars) # {} THEN sharing(sentenceVars)
                     ELSE {tree.assumptions[1].id}
        IN /\ Range(AddedStep.dependsOn) = rule5
           /\ NoDup(AddedStep.dependsOn) ]_vars

\* a generic step that rules 1 and 2 give three candidates, an assumption among
\* them, and a generic step with a candidate that is not the step before it
C15_Witness ==
  /\ Len(tree.steps) = 3
  /\ tree.steps[3].text = TBackRefX
  /\ Range(tree.steps[3].dependsOn) = {"s1", "a1", "s2"}
  /\ tree.steps[2].text = TVarY
  /\ tree.steps[2].dependsOn = <<"a2">>

\* C16: the dependsOn of a contradiction step is exactly the ids of the last
\* min(3, count) steps created before it, count being their number: never an
\* older step, never an assumption.
C16_LookbackWindow ==
  \A k \in 1..Len(tree.steps) :
    tree.steps[k].type = "contradiction" =>
      LET count == k - 1
          window == IF count < 3 THEN count ELSE 3
      IN tree.steps[k].dependsOn =
           [q \in 1..window |-> tree.steps[count - window + q].id]

C16_Witness ==
  /\ Len(tree.steps) = MaxLongSentences
  /\ tree.assumptions = << >>
  /\ tree.steps[MaxLongSentences].type = "contradiction"
  /\ Len(tree.steps[MaxLongSentences].dependsOn) = 3
  /\ tree.steps[1].id \notin Range(tree.steps[MaxLongSentences].dependsOn)

\* inferDependencies gets to line 290 with deps empty and an assumption in the tree
AssumptionFallbackReached ==
  /\ stepFallback(dependencyCandidates(AddedSentence, Cur, entities), Cur) = << >>
  /\ Len(tree.assumptions) > 0

\* C26: every assumption is recorded in VariableScope under each of its variables,
\* so when a generic step reaches the assumption fallback no assumption shares a
\* variable with the sentence, and the dependsOn of the step is exactly a1.
C26_FallbackIsFirstAssumption ==
  [][ /\ \A k \in 1..Len(tree.assumptions) :
           \A v \in Range(tree.assumptions[k].variables) :
             tree.assumptions[k].id \in Range(ScopeGet(variableScope, v))
      /\ (/\ StepAdded /\ AddedSentence.type \notin SpecialCategories
          /\ AssumptionFallbackReached)
         => /\ AssumptionsWith(tree.assumptions,
                  Range(extractVariablesFromText(AddedSentence.text))) = << >>
            /\ tree.assumptions[1].id = "a1"
            /\ AddedStep.dependsOn = <<"a1">> ]_vars

C26_Witness ==
  /\ Len(tree.assumptions) = 2
  /\ Len(tree.steps) = 2
  /\ tree.steps[1].type = "step" /\ tree.steps[1].text = TPlain
  /\ tree.steps[1].dependsOn = <<"a1">>
  /\ tree.steps[2].dependsOn = <<"a2">>

(***************************************************************************)
(* Properties of the handlers of buildProofTree, read on one iteration of  *)
(* the loop (specification Spec).                                          *)
(***************************************************************************)
\* the dependsOn of the added step is the id of the step before it, if any
DependsOnPrevious ==
  AddedStep.dependsOn = (IF tree.steps = << >> THEN << >> ELSE <<Last(tree.steps).id>>)

IsPrefix(s, t) == Len(s) <= Len(t) /\ SubSeq(t, 1, Len(s)) = s

\* C17: a case step gets caseNumber 1 + the depth of the case stack, depends on
\* exactly the step created before it (on nothing when there is none) and pushes
\* its id on the case stack; nothing pops the stack, so the k-th case sentence
\* gets caseNumber k.
C17_CaseNumbering ==
  [][ /\ IsPrefix(caseStack, caseStack')
      /\ (StepAdded /\ AddedStep.type = "case") =>
           /\ AddedStep.caseNumber = Len(caseStack) + 1
           /\ AddedStep.caseNumber =
                1 + Cardinality({k \in 1..Len(sentences) : IsStepEntry(sentences[k])
                                                           /\ sentences[k].type = "case"})
           /\ DependsOnPrevious
           /\ caseStack' = Append(caseStack, AddedStep.id) ]_vars

C17_Witness ==
  /\ Len(tree.steps) = MaxSentences
  /\ tree.steps[1].type = "case" /\ tree.steps[1].caseNumber = 1
  /\ tree.steps[1].dependsOn = << >>
  /\ tree.steps[2].type # "case"
  /\ tree.steps[3].type = "case" /\ tree.steps[3].caseNumber = 2
  /\ tree.steps[3].dependsOn = <<"s2">>
  /\ caseStack = <<"s1", "s3">>

\* C18: an existential step enters each of its variables in VariableScope only
\* when the variable has no entry, leaving the list of a variable already present
\* as it is, and depends on exactly the step created before it; a universal step
\* depends on exactly the step created before it and leaves VariableScope as it is.
C18_ExistentialFrame ==
  [][ /\ (StepAdded /\ AddedStep.type = "existential") =>
           /\ AddedStep.variables = extractVariablesFromText(AddedSentence.text)
           /\ DOMAIN variableScope' = DOMAIN variableScope \cup Range(AddedStep.variables)
           /\ \A v \in DOMAIN variableScope : variableScope'[v] = variableScope[v]
           /\ \A v \in Range(AddedStep.variables) \ DOMAIN variableScope :
                variableScope'[v] = <<AddedStep.id>>
           /\ DependsOnPrevious
      /\ (StepAdded /\ AddedStep.type = "universal") =>
           /\ variableScope' = variableScope
           /\ DependsOnPrevious ]_vars

C18_Witness ==
  /\ Len(tree.steps) = 2
  /\ tree.steps[2].type = "existential"
  /\ tree.steps[2].variables = <<"x">>
  /\ tree.steps[2].dependsOn = <<"s1">>
  /\ tree.steps[1].type = "universal"
  /\ ScopeGet(variableScope, "x") = <<"a1">>

\* the ids of the assumptions and of the existential steps of the tree t
ScopeSources(t) ==
  AssumptionIdSet(t)
  \cup {t.steps[k].id : k \in {q \in 1..Len(t.steps) : t.steps[q].type = "existential"}}

\* C19: VariableScope grows monotonically: no variable is removed, the id list of
\* a variable is only extended at its end, an assumption appends its id to the
\* list of each of its variables, and every id in a list is the id of an
\* assumption or existential step already created.
C19_ScopeMonotonic ==
  [][ /\ \A v \in DOMAIN variableScope :
           v \in DOMAIN variableScope' /\ IsPrefix(variableScope[v], variableScope'[v])
      /\ \A v \in DOMAIN variableScope' :
           Range(variableScope'[v]) \subseteq ScopeSources(tree')
      /\ Len(tree'.assumptions) = Len(tree.assumptions) + 1 =>
           \A v \in Range(Last(tree'.assumptions).variables) :
             variableScope'[v] =
               Append(ScopeGet(variableScope, v), Last(tree'.assumptions).id) ]_vars

C19_Witness ==
  /\ Len(sentences) = MaxSentences
  /\ ScopeGet(variableScope, "x") = <<"s1", "a1">>
  /\ ScopeGet(variableScope, "y") = <<"a2">>

\* C20: the dependsOn of an induction step is exactly the deduplicated union of
\* the ids VariableScope records for its induction variable (none when it has no
\* entry) and the id of the most recently created step (none when there is none).
C20_InductionUnion ==
  [][ (StepAdded /\ AddedStep.type = "induction") =>
        /\ NoDup(AddedStep.dependsOn)
        /\ Range(AddedStep.dependsOn) =
             Range(ScopeGet(variableScope, extractInductionVariable(AddedSentence.text)))
               \cup PreviousStep ]_vars

C20_Witness ==
  /\ Len(tree.steps) = 2
  /\ tree.steps[2].type = "induction"
  /\ ScopeGet(variableScope, "x") = <<"a1">>
  /\ tree.steps[2].dependsOn = <<"a1", "s1">>

\* the ids of the assumptions and steps of the tree t
CreatedIds(t) == AssumptionIdSet(t) \cup StepIds(t)

\* C24: during build every dependency edge points backwards in creation order: a
\* new step depends only on assumptions and steps created before it, never on
\* itself or on the goal; the steps already created keep their dependsOn; a goal
\* set by a conclusion sentence depends only on assumptions and steps created
\* before that sentence, and a step created later is not added to it.
C24_EdgesPointBack ==
  [][ /\ StepAdded =>
           /\ Range(AddedStep.dependsOn) \subseteq CreatedIds(tree)
           /\ AddedStep.id \notin CreatedIds(tree) \cup {"goal"}
           /\ tree'.goal = tree.goal
      /\ pc' = "loop" => IsPrefix(tree.steps, tree'.steps)
      /\ tree'.goal # tree.goal =>
           /\ IsConclusionEntry(AddedSentence)
           /\ Range(tree'.goal[1].dependsOn) \subseteq CreatedIds(tree)
           /\ tree'.steps = tree.steps ]_vars

C24_Witness ==
  /\ Len(sentences) = MaxSentences
  /\ IsStepEntry(sentences[1]) /\ IsConclusionEntry(sentences[2]) /\ IsStepEntry(sentences[3])
  /\ tree.goal # Null /\ tree.goal[1].dependsOn = <<"s1">>
  /\ tree.steps[2].dependsOn = <<"s1">>

\* C25: the cycle check at the end of buildProofTree changes nothing: it warns
\* about no step and not about the goal, and the returned tree is the tree the
\* loop built, with the dependsOn of every step as its handler left it.
C25_ValidationNoOp ==
  [][ pc' = "done" => (tree' = tree /\ output' = << >>) ]_vars

C25_Witness ==
  /\ Returned
  /\ output = << >>
  /\ Len(tree.steps) = 2
  /\ tree.steps[2].dependsOn = <<"s1">>
  /\ tree.goal # Null /\ tree.goal[1].dependsOn = <<"s1", "s2">>

\* C27: in the returned tree metadata.types is empty, metadata.variables holds
\* exactly the variables of the assumption and existential sentences, and
\* metadata.proofTechniques holds the categories of the sentences that had text,
\* each once, in order of first occurrence.
C27_Metadata ==
  Returned =>
    LET processed == SelectAt(sentences, {k \in 1..Len(sentences) : ~Skipped(sentences[k])})
        declared ==
          UNION {Range(extractVariablesFromText(processed[k].text)) :
                   k \in {q \in 1..Len(processed) :
                            processed[q].type \in {"assumption", "existential"}}}
    IN /\ tree.metadata.types = << >>
       /\ NoDup(tree.metadata.variables)
       /\ Range(tree.metadata.variables) = declared
       /\ tree.metadata.proofTechniques =
            SetAddAll(<< >>, LET categorized ==
                                   SelectAt(processed, {k \in 1..Len(processed) :
                                                          processed[k].type # Undefined})
                             IN [k \in 1..Len(categorized) |-> categorized[k].type])

C27_Witness ==
  /\ Returned
  /\ Len(sentences) = MaxSentences
  /\ tree.metadata.variables = <<"y">>
  /\ tree.metadata.proofTechniques = <<"assumption", "step">>
  /\ Len(tree.steps) = 2
  /\ tree.steps[1].variables = <<"x">>

(***************************************************************************)
(* nlp/tokenizer.js: classifySentence.  Each Trigger is the disjunction of *)
(* the regular expressions of one if-statement; low is the lower-cased     *)
(* text.  Follows(low, k, ws) says that the words ws stand at positions    *)
(* k, k+1, ... separated by blanks; the last of them may be a prefix of    *)
(* its token when the pattern ends without \b.                             *)
(***************************************************************************)
Follows(low, k, ws) ==
  /\ k + Len(ws) - 1 <= Len(low)
  /\ \A q \in 1..Len(ws) :
       /\ ws[q] \in {low[k + q - 1]}
       /\ q < Len(ws) => Spaced(low, k + q - 1)

FollowsPrefix(low, k, ws) ==
  /\ k + Len(ws) - 1 <= Len(low)
  /\ \A q \in 1..Len(ws) :
       /\ IF q < Len(ws) THEN ws[q] = low[k + q - 1]
          ELSE StartsWith(low[k + q - 1], ws[q])
       /\ q < Len(ws) => Spaced(low, k + q - 1)

\* some position of low where one of the word sequences of alts stands
Occurs(low, alts) == \E k \in 1..Len(low) : \E ws \in alts : Follows(low, k, ws)
OccursPrefix(low, alts) ==
  \E k \in 1..Len(low) : \E ws \in alts : FollowsPrefix(low, k, ws)

inductionTrigger(text, low) ==
  \/ OccursPrefix(low, {<<w, "induction">> : w \in {"by", "using", "via"}})
  \/ OccursPrefix(low, {<<"prove", "by", "induction">>})
  \/ OccursPrefix(low, {<<"inductive", w>> : w \in {"step", "case", "hypothesis"}})

contradictionTrigger(text, low) ==
  \/ OccursPrefix(low, {<<w, "not">> : w \in {"suppose", "assume"}})
  \/ \E k \in 1..Len(low) :
       /\ FollowsPrefix(low, k, <<"suppose", "that">>)
          \/ FollowsPrefix(low, k, <<"assume", "that">>)
       /\ \E j \in (k+2)..Len(low) : Contains(low[j], "not")
  \/ OccursPrefix(low, {<<"contradiction">>, <<"contradicts">>, <<"absurd">>})
  \/ OccursPrefix(low, {<<w, "to", "a", "contradiction">> : w \in {"lead", "leads"}})

caseTrigger(text, low) ==
  \/ OccursPrefix(low, {<<w, "the", "case">> : w \in {"consider", "examine"}})
  \/ \E k \in 1..Len(low) :
       low[k] = "case" /\ Spaced(low, k) /\ DigitLeading(low[k+1])
  \/ OccursPrefix(low, {<<"in", "the", "case", w>> : w \in {"where", "when"}})
  \/ OccursPrefix(low, {<<w, "case">> : w \in {"first", "second", "next"}})

definitionTrigger(text, low) ==
  \/ OccursPrefix(low, {<<"by", "definition">>})
  \/ OccursPrefix(low, {<<"definition", "of">>})
  \/ OccursPrefix(low, {<<"simplify">>, <<"simplifies">>})
  \/ OccursPrefix(low, {<<w, v>> : w \in {"expand", "expanding"}, v \in {"the", "this"}})
  \/ OccursPrefix(low, {<<"substitute">>, <<"substituting">>})

existentialTrigger(text, low) ==
  \/ OccursPrefix(low, {<<"there", "exist">>})
  \/ OccursPrefix(low, {<<"for", "some">>})
  \/ OccursPrefix(low, {<<"we", "can", "find">>})
  \/ OccursPrefix(low, {<<"choose">>})
  \/ "#exists" \in Range(text)

universalTrigger(text, low) ==
  \/ OccursPrefix(low, {<<"for", w>> : w \in {"all", "every", "each", "any"}})
  \/ \E k \in 1..Len(low) :
       /\ low[k] = "every" /\ Spaced(low, k)
       /\ k + 2 <= Len(low) /\ IsWord(low[k+1]) /\ Spaced(low, k+1)
       /\ \E w \in {"is", "has", "satisfies"} : StartsWith(low[k+2], w)
  \/ "#forall" \in Range(text)

implicationTrigger(text, low) ==
  \/ \E k \in 1..Len(low) : \E j \in (k+1)..Len(low) : low[k] = "if" /\ low[j] = "then"
  \/ \E k \in 1..Len(low) : \E j \in (k+1)..Len(low) :
       /\ low[k] = "whenever"
       /\ StartsWith(low[j], "then") \/ FollowsPrefix(low, j, <<"we", "have">>)
  \/ Occurs(low, {<<"implies">>, <<"implie">>})
  \/ Range(text) \cap {"#arrow", "#implies"} # {}

assumptionTrigger(text, low) ==
  \/ Len(low) >= 1 /\ low[1] \in {"assume", "suppose", "let", "given"}
  \/ OccursPrefix(low, {<<"we", w>> : w \in {"assume", "suppose", "let"}})

\* mutant: the step rule without its sentence-initial words
stepTrigger_noMarkers(text, low) ==
  \/ OccursPrefix(low, {<<"we", w>> : w \in {"have", "get", "obtain", "derive", "see",
                                            "find", "conclude"}})
  \/ OccursPrefix(low, {<<"this", w>> : w \in {"gives", "yields", "shows", "implies"}})
  \/ OccursPrefix(low, {<<"it", "follows", "that">>})

stepTrigger(text, low) ==
  \/ Len(low) >= 1 /\ low[1] \in {"then", "thus", "so", "hence"}
  \/ OccursPrefix(low, {<<"we", w>> : w \in {"have", "get", "obtain", "derive", "see",
                                            "find", "conclude"}})
  \/ OccursPrefix(low, {<<"this", w>> : w \in {"gives", "yields", "shows", "implies"}})
  \/ OccursPrefix(low, {<<"it", "follows", "that">>})

conclusionTrigger(text, low) ==
  \/ Len(low) >= 1 /\ low[1] \in {"therefore", "hence", "thus", "consequently", "so"}
  \/ OccursPrefix(low, {<<"we", "conclude", "that">>})
  \/ OccursPrefix(low, {<<"this", w>> : w \in {"proves", "establishes", "shows",
                                              "demonstrates"}})
  \/ \E k \in 1..Len(text) : QedMatch(text[k])
  \/ "#qed" \in Range(text)

arithmeticTrigger(text, low) ==
  \/ Occurs(low, {<<w>> : w \in {"divisible", "divides", "factor", "multiple"}})
  \/ Occurs(low, {<<w>> : w \in {"even", "odd", "prime", "composite"}})
  \/ OccursPrefix(low, {<<w, "number">> :
                          w \in {"integer", "rational", "irrational", "real", "natural"}})
  \/ \E k \in 1..Len(text) :
       /\ k + 2 <= Len(text)
       /\ EndsWithDigit(text[k])
       /\ text[k+1] \in {"+", "-", "*", "/"}
       /\ DigitLeading(text[k+2])
  \/ Occurs(low, {<<w>> : w \in {"gcd", "lcm", "mod", "remainder"}})

algebraicTrigger(text, low) ==
  \/ \E k \in 1..Len(text) :
       /\ k + 2 <= Len(text)
       /\ IsWord(text[k]) /\ ~EndsWithDigit(text[k])
       /\ text[k+1] \in {"=", "<", ">", "#le", "#ge", "#ne"}
       /\ IsWord(text[k+2])
  \/ Occurs(low, {<<"equation">>})
  \/ OccursPrefix(low, {<<"solve", "for">>})

setTheoryTrigger(text, low) ==
  \/ Occurs(low, {<<"subset">>, <<"superset">>, <<"element">>, <<"belongs", "to">>,
                  <<"contained", "in">>})
  \/ Occurs(low, {<<"union">>, <<"intersection">>, <<"complement">>,
                  <<"empty", "set">>})
  \/ Range(text) \cap {"#in", "#notin", "#subset", "#union", "#empty"}
       # {}

\* mutant: the conclusion test stands before the step test
classifySentence_conclusionFirst(sentence) ==
  LET text == trim(sentence)
      lower == lowerText(text)
      type ==
        IF inductionTrigger(text, lower) THEN "induction"
        ELSE IF contradictionTrigger(text, lower) THEN "contradiction"
        ELSE IF caseTrigger(text, lower) THEN "case"
        ELSE IF definitionTrigger(text, lower) THEN "definition"
        ELSE IF existentialTrigger(text, lower) THEN "existential"
        ELSE IF universalTrigger(text, lower) THEN "universal"
        ELSE IF implicationTrigger(text, lower) THEN "implication"
        ELSE IF assumptionTrigger(text, lower) THEN "assumption"
        ELSE IF conclusionTrigger(text, lower) THEN "conclusion"
        ELSE IF stepTrigger(text, lower) THEN "step"
        ELSE IF arithmeticTrigger(text, lower) THEN "arithmetic"
        ELSE IF algebraicTrigger(text, lower) THEN "algebraic"
        ELSE IF setTheoryTrigger(text, lower) THEN "set_theory"
        ELSE "other"
  IN Sentence(type, text)

classifySentence(sentence) ==
  LET text == trim(sentence)
      lower == lowerText(text)
      type ==
        IF inductionTrigger(text, lower) THEN "induction"
        ELSE IF contradictionTrigger(text, lower) THEN "contradiction"
        ELSE IF caseTrigger(text, lower) THEN "case"
        ELSE IF definitionTrigger(text, lower) THEN "definition"
        ELSE IF existentialTrigger(text, lower) THEN "existential"
        ELSE IF universalTrigger(text, lower) THEN "universal"
        ELSE IF implicationTrigger(text, lower) THEN "implication"
        ELSE IF assumptionTrigger(text, lower) THEN "assumption"
        ELSE IF stepTrigger(text, lower) THEN "step"
        ELSE IF conclusionTrigger(text, lower) THEN "conclusion"
        ELSE IF arithmeticTrigger(text, lower) THEN "arithmetic"
        ELSE IF algebraicTrigger(text, lower) THEN "algebraic"
        ELSE IF setTheoryTrigger(text, lower) THEN "set_theory"
        ELSE "other"
  IN Sentence(type, text)

(***************************************************************************)
(* Specification SpecClassify: classifySentence applied to any sentence of *)
(* at most MaxTokens tokens of ClassifyVocabulary.                         *)
(***************************************************************************)
MaxTokens == 3

ClassifyVocabulary ==
  {"by", "induction", "contradiction", "case", "1", "simplify", "for", "some", "all",
   "if", "then", "Let", "we", "have", "Therefore", "thus", "even", "x", "=", "subset",
   "holds"}

RECURSIVE TextsUpTo(_, _)
TextsUpTo(vocabulary, n) ==
  IF n = 0 THEN {<< >>}
  ELSE LET shorter == TextsUpTo(vocabulary, n - 1)
       IN shorter \cup {Append(tx, w) : tx \in shorter, w \in vocabulary}

InitClassify ==
  /\ pc = "classifySentence"
  /\ input \in TextsUpTo(ClassifyVocabulary, MaxTokens) \ {<< >>}
  /\ output = << >>
  /\ sentences = << >>
  /\ entities = [isArray |-> FALSE, items |-> << >>]
  /\ tree = NewTree(entities)
  /\ stepId = 0
  /\ createdSteps = << >>
  /\ variableScope = << >>
  /\ caseStack = << >>
  /\ renderer = RendererLoaded

Classify ==
  /\ pc = "classifySentence"
  /\ pc' = "classified"
  /\ output' = <<classifySentence(input)>>
  /\ UNCHANGED <<sentences, entities, tree, stepId, createdSteps, variableScope,
                 caseStack, input, renderer>>

NextClassify == Classify

SpecClassify == InitClassify /\ [][NextClassify]_vars

\* the rule table of C8: the categories in the order of their tests
RuleOrder ==
  <<"induction", "contradiction", "case", "definition", "existential", "universal",
    "implication", "assumption", "step", "conclusion", "arithmetic", "algebraic",
    "set_theory">>

Triggered(category, text) ==
  LET low == lowerText(text)
  IN CASE category = "induction" -> inductionTrigger(text, low)
       [] category = "contradiction" -> contradictionTrigger(text, low)
       [] category = "case" -> caseTrigger(text, low)
       [] category = "definition" -> definitionTrigger(text, low)
       [] category = "existential" -> existentialTrigger(text, low)
       [] category = "universal" -> universalTrigger(text, low)
       [] category = "implication" -> implicationTrigger(text, low)
       [] category = "assumption" -> assumptionTrigger(text, low)
       [] category = "step" -> stepTrigger(text, low)
       [] category = "conclusion" -> conclusionTrigger(text, low)
       [] category = "arithmetic" -> arithmeticTrigger(text, low)
       [] category = "algebraic" -> algebraicTrigger(text, low)
       [] category = "set_theory" -> setTheoryTrigger(text, low)

Classified == pc = "classified"

\* C8: classifySentence gives every sentence one category of the closed set: that
\* of the first rule of RuleOrder whose trigger the sentence matches, `other` when
\* none matches; a sentence with an induction and a step trigger is induction.
C8_FirstRuleWins ==
  Classified =>
    LET hits == {k \in 1..Len(RuleOrder) : Triggered(RuleOrder[k], input)}
    IN /\ output[1].type \in Categories
       /\ output[1].type = (IF hits = {} THEN "other" ELSE RuleOrder[FirstOf(hits)])
       /\ (Triggered("induction", input) /\ Triggered("step", input))
            => output[1].type = "induction"

C8_Witness ==
  /\ Classified
  /\ Triggered("induction", input)
  /\ Triggered("step", input)
  /\ Triggered("conclusion", input)
  /\ output[1].type = "induction"


(***************************************************************************)
(* JavaScript values handed to the stages.  kind is the tag of the value;  *)
(* num the value of a number or boolean (0 for 0 and false); text the      *)
(* content of a string; items the elements of an array.  For an object,    *)
(* type is its `type` property (Undefined when it has none), textKind the  *)
(* kind of its `text` property and text or num the value of that property. *)
(***************************************************************************)
JsValue(kind, num, text, items, type, textKind) ==
  [kind |-> kind, num |-> num, text |-> text, items |-> items, type |-> type,
   textKind |-> textKind]

JsUndefined == JsValue("undefined", 0, << >>, << >>, Undefined, "undefined")
JsNull == JsValue("null", 0, << >>, << >>, Undefined, "undefined")
JsNumber(n) == JsValue("number", n, << >>, << >>, Undefined, "undefined")
JsBoolean(b) == JsValue("boolean", IF b THEN 1 ELSE 0, << >>, << >>, Undefined, "undefined")
JsString(text) == JsValue("string", 0, text, << >>, Undefined, "undefined")
JsArray(items) == JsValue("array", 0, << >>, items, Undefined, "undefined")
\* {}, { type }, { type, text: "..." }, { type, text: <number> }
JsObject(type) == JsValue("object", 0, << >>, << >>, type, "undefined")
JsSentence(type, text) == JsValue("object", 0, text, << >>, type, "string")
JsNumberText(type, n) == JsValue("object", n, << >>, << >>, type, "number")

\* ToBoolean
Truthy(v) ==
  CASE v.kind \in {"undefined", "null"} -> FALSE
    [] v.kind \in {"number", "boolean"} -> v.num # 0
    [] v.kind = "string" -> v.text # << >>
    [] OTHER -> TRUE

\* typeof v
TypeOf(v) ==
  CASE v.kind \in {"null", "array"} -> "object"
    [] OTHER -> v.kind

\* v.text, for v neither null nor undefined
TextOf(v) ==
  IF v.kind = "object"
  THEN CASE v.textKind = "string" -> JsString(v.text)
         [] v.textKind = "number" -> JsNumber(v.num)
         [] OTHER -> JsUndefined
  ELSE JsUndefined

\* the outcome of a call: a returned value or a raised exception
Returns(value) == [raised |-> FALSE, value |-> value]
Raises == [raised |-> TRUE, value |-> << >>]

(***************************************************************************)
(* nlp/tokenizer.js: tokenizeSentences.  The sentence splitter of the      *)
(* `compromise` library is taken to cut the text after each full stop,     *)
(* question mark or exclamation mark.                                      *)
(***************************************************************************)
SentenceEnds == {".", "?", "!"}

RECURSIVE splitSentences(_)
splitSentences(text) ==
  LET cut(t, end) ==
        IF t = << >> THEN << >>
        ELSE IF end = 0 THEN <<t>>
        ELSE <<SubSeq(t, 1, end)>> \o splitSentences(SubSeq(t, end + 1, Len(t)))
      split(t) == cut(t, FirstOf({k \in 1..Len(t) : t[k] \in SentenceEnds}))
  IN split(trim(text))

tokenizeSentences(text) ==
  IF ~Truthy(text) \/ TypeOf(text) # "string" \/ trim(text.text) = << >>
  THEN << >>
  ELSE LET filter(split) == SelectAt(split, {k \in 1..Len(split) : trim(split[k]) # << >>})
           map(kept) == [k \in 1..Len(kept) |-> classifySentence(kept[k])]
       IN map(filter(splitSentences(text.text)))


(***************************************************************************)
(* nlp/entities.js: extractEntities.  The Map `entities` is the sequence   *)
(* of its values in insertion order; an entity is [name, type, examples].  *)
(* The symbols are written "#int", "#nat", "#real", "#rat", "#complex",    *)
(* "#pi", "#infinity".                                                     *)
(***************************************************************************)
\* the number of characters of a token: a symbol written "#name" is one character
TokenLen(t) == IF Len(t) > 1 /\ StartsWith(t, "#") THEN 1 ELSE Len(t)

\* String.prototype.slice(0, n) of the text from token k on
RECURSIVE sliceFrom(_, _, _)
sliceFrom(text, k, n) ==
  IF k > Len(text) \/ n <= 0 THEN << >>
  ELSE LET t == text[k]
           w == TokenLen(t)
           blank == IF Spaced(text, k) THEN 1 ELSE 0
       IN IF w > n THEN <<SubSeq(t, 1, n)>>
          ELSE IF k = Len(text) \/ n - w < blank THEN <<t>>
          ELSE IF n - w = blank THEN (IF blank = 1 THEN <<t, " ">> ELSE <<t>>)
          ELSE <<t>> \o sliceFrom(text, k + 1, n - w - blank)

exampleMaxLength == 80
maxExamplesStored == 5
maxExamplesReturned == 3

EntityIndex(ents, name) == FirstOf({k \in 1..Len(ents) : ents[k].name = name})

addEntity(ents, name, type, example) ==
  LET ents1 == IF EntityIndex(ents, name) = 0
               THEN Append(ents, [name |-> name, type |-> type, examples |-> << >>])
               ELSE ents
      k == EntityIndex(ents1, name)
  IN IF example # << >> /\ Len(ents1[k].examples) < maxExamplesStored
     THEN [ents1 EXCEPT ![k].examples = Append(@, sliceFrom(example, 1, exampleMaxLength))]
     ELSE ents1

\* addEntity for each name of names in order, with the same type and example
RECURSIVE addEntities(_, _, _, _)
addEntities(ents, names, type, example) ==
  IF names = << >> THEN ents
  ELSE addEntities(addEntity(ents, Head(names), type, example), Tail(names), type, example)

IsGreekSymbol(t) == Len(t) > 1 /\ StartsWith(t, "#") /\ SubSeq(t, 2, Len(t)) \in GreekNames

extractVariables(text, ents) ==
  LET singleLetters ==
        SelectAt(text, {k \in 1..Len(text) : text[k] \in SingleLetters
                                       /\ text[k] \notin excludeWords})
      matches(found) == SelectAt(found, {k \in 1..Len(found) : found[k] # ""})
      subscripted == matches([k \in 1..Len(text) |-> SubscriptedAt(text, k)])
      greekMatches ==
        SelectAt(text, {k \in 1..Len(text) : toLowerCase(text[k]) \in GreekNames})
      greekSymbols == SelectAt(text, {k \in 1..Len(text) : IsGreekSymbol(text[k])})
  IN addEntities(addEntities(addEntities(addEntities(ents,
       singleLetters, "variable", text), subscripted, "variable", text),
       greekMatches, "variable", text), greekSymbols, "variable", text)

\* white space or the end of the text right after token k: (?=\s|$)
BlankOrEndAfter(text, k) ==
  k = Len(text) \/ text[k+1] \in WhitespaceTokens \/ Spaced(text, k)

\* a symbol at position k with a word character right before it: \b before a symbol
SymbolAfterWord(text, k, symbol) ==
  text[k] = symbol /\ k > 1 /\ IsWord(text[k-1]) /\ ~Spaced(text, k - 1)

typePatterns ==
  << [words |-> {"integer", "int"}, symbol |-> "#int", letter |-> "z",
      name |-> "#int", label |-> "Integer"],
     [words |-> {"natural"}, symbol |-> "#nat", letter |-> "n",
      name |-> "#nat", label |-> "Natural"],
     [words |-> {"real"}, symbol |-> "#real", letter |-> "r",
      name |-> "#real", label |-> "Real"],
     [words |-> {"rational"}, symbol |-> "#rat", letter |-> "q",
      name |-> "#rat", label |-> "Rational"],
     [words |-> {"complex"}, symbol |-> "#complex", letter |-> "c",
      name |-> "#complex", label |-> "Complex"],
     [words |-> {"bool", "prop", "proposition"}, symbol |-> "", letter |-> "",
      name |-> "Prop", label |-> "Proposition"] >>

typePatternTest(p, text) ==
  \E k \in 1..Len(text) :
    LET l == toLowerCase(text[k])
    IN \/ \E w \in p.words : StartsWith(l, w)
       \/ SymbolAfterWord(text, k, p.symbol)
       \/ p.letter # "" /\ l = p.letter /\ BlankOrEndAfter(text, k)

RECURSIVE extractTypesFrom(_, _, _)
extractTypesFrom(k, text, ents) ==
  IF k > Len(typePatterns) THEN ents
  ELSE IF typePatternTest(typePatterns[k], text)
       THEN extractTypesFrom(k + 1, text,
              addEntity(ents, typePatterns[k].name, "type",
                        <<typePatterns[k].label, "number/type">>))
       ELSE extractTypesFrom(k + 1, text, ents)

extractTypes(text, ents) == extractTypesFrom(1, text, ents)

functionNames ==
  {"sin", "cos", "tan", "log", "ln", "exp", "sqrt", "abs", "floor", "ceil", "gcd",
   "lcm", "min", "max"}

extractFunctions(text, ents) ==
  LET functions ==
        SelectAt(text, {k \in 1..Len(text) : toLowerCase(text[k]) \in functionNames})
      customFunctions ==
        SelectAt(text, {k \in 1..Len(text) :
                          /\ text[k] \in SingleLetters
                          /\ k < Len(text) /\ text[k+1] = "("
                          /\ toLowerCase(text[k]) \notin {"sin", "cos", "tan", "log", "exp"}})
  IN addEntities(addEntities(ents, functions, "function", text),
                 customFunctions, "function", text)

constantPatternTest(name, text) ==
  \E k \in 1..Len(text) :
    CASE name = "#pi" ->
           \/ SymbolAfterWord(text, k, "#pi")
           \/ IsWord(text[k]) /\ EndsWith(toLowerCase(text[k]), "pi")
      [] name = "e" -> text[k] = "e" /\ ~(k < Len(text) /\ text[k+1] = "=")
      [] name = "#infinity" ->
           \/ SymbolAfterWord(text, k, "#infinity")
           \/ IsWord(text[k]) /\ EndsWith(toLowerCase(text[k]), "infinity")
      [] OTHER -> text[k] = name

constantNames == <<"#pi", "e", "#infinity", "0", "1">>

\* addEntity for each name of names whose test the text passes, in order
RECURSIVE extractConstantsFrom(_, _, _)
extractConstantsFrom(k, text, ents) ==
  IF k > Len(constantNames) THEN ents
  ELSE IF constantPatternTest(constantNames[k], text)
       THEN extractConstantsFrom(k + 1, text,
              addEntity(ents, constantNames[k], "constant", text))
       ELSE extractConstantsFrom(k + 1, text, ents)

extractConstants(text, ents) == extractConstantsFrom(1, text, ents)

properties ==
  <<"even", "odd", "prime", "composite", "divisible", "factor", "multiple",
    "positive", "negative", "nonzero", "continuous", "differentiable", "integrable",
    "bounded", "unbounded", "convergent", "divergent", "injective", "surjective",
    "bijective", "associative", "commutative", "distributive">>

extractProperties(text, lower, ents) ==
  addEntities(ents,
    SelectAt(properties, {k \in 1..Len(properties) : properties[k] \in Range(lower)}),
    "property", text)

extractSets(text, lower, ents) ==
  LET setDefinitions ==
        SelectAt(text, {k \in 1..Len(text) :
                          /\ text[k] \in UpperChars
                          /\ k + 2 <= Len(text) /\ text[k+1] = "=" /\ text[k+2] = "{"})
      ents1 == addEntities(ents, setDefinitions, "set", text)
  IN IF Range(lower) \cap {"set", "subset", "superset", "union", "intersection"} # {}
     THEN addEntity(ents1, "Set", "concept", text)
     ELSE ents1

\* the body of the forEach of extractEntities for one element s
extractFromSentence(s, ents) ==
  LET extract(tx, lower) ==
        extractSets(tx, lower,
          extractProperties(tx, lower,
            extractConstants(tx,
              extractFunctions(tx,
                extractTypes(tx,
                  extractVariables(tx, ents))))))
      from(text) ==
        IF ~Truthy(text) \/ TypeOf(text) # "string" THEN ents
        ELSE extract(text.text, lowerText(text.text))
  IN from(IF Truthy(TextOf(s)) THEN TextOf(s) ELSE s)

\* sentences.forEach: the entities of one sentence are complete before the
\* next sentence is read
RECURSIVE extractAll(_, _)
extractAll(items, ents) ==
  IF items = << >> THEN ents
  ELSE LET continue(next) ==
             IF Len(next) = 0 THEN extractAll(Tail(items), << >>)
             ELSE extractAll(Tail(items), next)
       IN continue(extractFromSentence(Head(items), ents))

\* [...new Set(entity.examples)].slice(0, 3)
finishEntity(entity) ==
  LET distinct == SetAddAll(<< >>, entity.examples)
  IN [entity EXCEPT !.examples =
        SubSeq(distinct, 1, IF Len(distinct) < maxExamplesReturned THEN Len(distinct)
                            ELSE maxExamplesReturned)]

extractEntities(ss) ==
  IF ~Truthy(ss) \/ ss.kind # "array" THEN Returns(<< >>)
  ELSE IF \E k \in 1..Len(ss.items) :
            ss.items[k].kind \in {"null", "undefined"}
       THEN Raises            \* s.text of null or undefined
       ELSE LET values(ents) == [k \in 1..Len(ents) |-> finishEntity(ents[k])]
            IN Returns(values(extractAll(ss.items, << >>)))


(***************************************************************************)
(* lean/generator.js: generateLean.  The emitted code is the sequence of   *)
(* its lines; a line is [indent, text], the text a sequence of tokens.     *)
(* ctx is [code, indent, hypotheses, variables]; the Maps are sequences in *)
(* insertion order.                                                        *)
(***************************************************************************)
NewCtx == [code |-> << >>, indent |-> 0, hypotheses |-> << >>, variables |-> << >>]

addLine(ctx, text) ==
  [ctx EXCEPT !.code = Append(@, [indent |-> ctx.indent, text |-> text])]

\* replace(/\*\//g, '* /').replace(/\n/g, ' ')
RECURSIVE escapeComment(_)
escapeComment(text) ==
  IF text = << >> THEN << >>
  ELSE (CASE Head(text) = "*/" -> <<"*", "/">>
          [] Head(text) = "\n" -> <<" ">>
          [] OTHER -> <<Head(text)>>) \o escapeComment(Tail(text))

addComment(ctx, text) == addLine(ctx, <<"--">> \o escapeComment(text))

Indent(ctx) == [ctx EXCEPT !.indent = @ + 1]
Dedent(ctx) == [ctx EXCEPT !.indent = @ - 1]

\* Map.prototype.set on a sequence of [key, value]
MapSet(map, key, value) ==
  LET k == FirstOf({q \in 1..Len(map) : map[q].key = key})
  IN IF k = 0 THEN Append(map, [key |-> key, value |-> value])
     ELSE [map EXCEPT ![k].value = value]

\* examples.join(' ').toLowerCase().includes(word)
ExamplesInclude(entity, word) ==
  \E q \in 1..Len(entity.examples) : \E k \in 1..Len(entity.examples[q]) :
    Contains(toLowerCase(entity.examples[q][k]), word)

inferVariableType(entity, t) ==
  LET inc(word) == ExamplesInclude(entity, word)
      types == IF t.hasMetadata THEN Range(t.metadata.types) ELSE {}
  IN IF inc("integer") \/ inc("#int") THEN "#int"
     ELSE IF inc("natural") \/ inc("#nat") THEN "#nat"
     ELSE IF inc("real") \/ inc("#real") THEN "#real"
     ELSE IF inc("rational") \/ inc("#rat") THEN "#rat"
     ELSE IF inc("even") \/ inc("odd") \/ inc("divisible") THEN "#int"
     ELSE IF inc("prime") THEN "#nat"
     ELSE IF types \cap {"#int", "Integer"} # {} THEN "#int"
     ELSE IF types \cap {"#nat", "Natural"} # {} THEN "#nat"
     ELSE IF types \cap {"#real", "Real"} # {} THEN "#real"
     ELSE "#nat"

\* the words ws at positions k, k+1, ... of low, each followed by white space
WordsAt(low, k, ws) ==
  /\ k + Len(ws) <= Len(low)
  /\ \A q \in 1..Len(ws) : low[k + q - 1] \in ws[q] /\ Spaced(low, k + q - 1)

typeMap(word) ==
  CASE word = "integer" -> "#int"
    [] word = "natural" -> "#nat"
    [] word = "real" -> "#real"
    [] word = "rational" -> "#rat"

\* the first of the words that is a prefix of the token t, "" when none is
PrefixAmong(t, words) ==
  LET hits == {q \in 1..Len(words) : StartsWith(t, words[q])}
  IN IF hits = {} THEN "" ELSE words[FirstOf(hits)]

Article == {"a", "an"}
Copula == {"is", "be"}

scanForTypes(text, ctx) ==
  LET n == Len(text)
      \* /let\s+([a-z])\s+be\s+an?\s+(integer|natural|real|rational)/i
      m1(low) == FirstOf({k \in 1..n :
              /\ EndsWith(low[k], "let") /\ Spaced(low, k)
              /\ WordsAt(low, k + 1, <<LowerChars, {"be"}, Article>>)
              /\ PrefixAmong(low[k+4], <<"integer", "natural", "real", "rational">>) # ""})
      set1(low, m, c) ==
        IF m = 0 THEN c
        ELSE [c EXCEPT !.variables =
                MapSet(@, text[m+1],
                  typeMap(PrefixAmong(low[m+4],
                                      <<"integer", "natural", "real", "rational">>)))]
      \* /([a-z])\s+(?:is|be)\s+an?\s+(even|odd)\s+(integer|number)/i
      m2(low) == FirstOf({k \in 1..n :
              /\ LastLetter(text[k]) # "" /\ Spaced(low, k)
              /\ WordsAt(low, k + 1, <<Copula, Article, {"even", "odd"}>>)
              /\ PrefixAmong(low[k+4], <<"integer", "number">>) # ""})
      set2(m, c) ==
        IF m = 0 THEN c
        ELSE [c EXCEPT !.variables = MapSet(@, LastLetter(text[m]), "#int")]
      \* /([a-z])\s+(?:is|be)\s+an?\s+prime\s+number/i
      m3(low) == FirstOf({k \in 1..n :
              /\ LastLetter(text[k]) # "" /\ Spaced(low, k)
              /\ WordsAt(low, k + 1, <<Copula, Article, {"prime"}>>)
              /\ StartsWith(low[k+4], "number")})
      set3(m, c) ==
        IF m = 0 THEN c
        ELSE [c EXCEPT !.variables = MapSet(@, LastLetter(text[m]), "#nat")]
      \* /([a-z])\s*∈\s*([ℤℕℝℚ])/g
      m4 == SelectAt([k \in 1..n |-> k], {k \in 1..n :
              /\ LastLetter(text[k]) \in LowerChars
              /\ k + 2 <= n /\ text[k+1] = "#in"
              /\ text[k+2] \in {"#int", "#nat", "#real", "#rat"}})
      set4(m, c) ==
        LET setAll[q \in 0..Len(m)] ==
              IF q = 0 THEN c
              ELSE [setAll[q-1] EXCEPT !.variables =
                      MapSet(@, LastLetter(text[m[q]]), text[m[q] + 2])]
        IN setAll[Len(m)]
      scan(low) == set4(m4, set3(m3(low), set2(m2(low), set1(low, m1(low), ctx))))
  IN scan(lowerText(text))

RECURSIVE scanAssumptions(_, _)
scanAssumptions(assumptions, ctx) ==
  IF assumptions = << >> THEN ctx
  ELSE scanAssumptions(Tail(assumptions), scanForTypes(Head(assumptions).text, ctx))

RECURSIVE inferEntityTypes(_, _, _)
inferEntityTypes(ents, t, ctx) ==
  IF ents = << >> THEN ctx
  ELSE inferEntityTypes(Tail(ents), t,
         IF Head(ents).type = "variable"
         THEN [ctx EXCEPT !.variables =
                 MapSet(@, Head(ents).name, inferVariableType(Head(ents), t))]
         ELSE ctx)

inferTypes(t, ctx) == scanAssumptions(t.assumptions, inferEntityTypes(t.entities, t, ctx))

RECURSIVE declareVariables(_, _)
declareVariables(variables, ctx) ==
  IF variables = << >> THEN ctx
  ELSE declareVariables(Tail(variables),
         addLine(ctx, <<"variable", "(", Head(variables).key, ":",
                        Head(variables).value, ")">>))

generateVariableDeclarations(ctx) ==
  declareVariables(ctx.variables, addComment(ctx, <<"Variable", "declarations">>))

\* 'even' -> 'Even': charAt(0).toUpperCase() + slice(1)
Capitalize(word) ==
  LET c == CharAt(word, 1)
      up == IF c \in LowerChars
            THEN CharAt(UpperAlphabet,
                        CHOOSE k \in 1..Len(LowerAlphabet) : CharAt(LowerAlphabet, k) = c)
            ELSE c
  IN up \o SubSeq(word, 2, Len(word))

Unformalized(clean) == <<"True", "--", "TODO:", "formalize", "\"">> \o clean \o <<"\"">>

parseGoalToLean(text) ==
  LET \* replace(/^(therefore|hence|thus|we conclude that|this proves that)\s+/i, '')
      prefix(low0) ==
        IF WordsAt(low0, 1, <<{"therefore", "hence", "thus"}>>) THEN 1
        ELSE IF \/ WordsAt(low0, 1, <<{"we"}, {"conclude"}, {"that"}>>)
                \/ WordsAt(low0, 1, <<{"this"}, {"proves"}, {"that"}>>) THEN 3
        ELSE 0
      without(drop) == trim(SubSeq(text, drop + 1, Len(text)))
      parse(clean, low, n) ==
        LET \* /([a-z])\s+is\s+(even|odd)/i
            evenOdd == FirstOf({k \in 1..n :
                         /\ LastLetter(clean[k]) # ""
                         /\ WordsAt(low, k, <<{low[k]}, {"is"}>>)
                         /\ PrefixAmong(low[k+2], <<"even", "odd">>) # ""})
            \* /([a-z])\s+is\s+divisible\s+by\s+([a-z])/i
            divisible == FirstOf({k \in 1..n :
                           /\ LastLetter(clean[k]) # ""
                           /\ WordsAt(low, k, <<{low[k]}, {"is"}, {"divisible"}, {"by"}>>)
                           /\ FirstLetter(clean[k+4]) # ""})
            \* /([a-z])\s*=\s*(.+)\s+for some\s+([a-z])/i
            forSome(k) == {j \in (k+3)..n :
                            /\ Spaced(low, j - 1)
                            /\ WordsAt(low, j, <<{"for"}, {"some"}>>)
                            /\ FirstLetter(clean[j+2]) # ""}
            exists == FirstOf({k \in 1..n :
                        /\ LastLetter(clean[k]) # ""
                        /\ k + 1 <= n /\ clean[k+1] = "="
                        /\ forSome(k) # {}})
            existsTerm(k, j) ==
              <<"#exists", FirstLetter(clean[j+2]), ",", LastLetter(clean[k]), "=">>
                \o SubSeq(clean, k + 2, j - 1)
            \* /for all\s+([a-z]),\s*(.+)/i
            forall == FirstOf({k \in 1..n :
                        /\ EndsWith(low[k], "for")
                        /\ WordsAt(low, k, <<{low[k]}, {"all"}>>)
                        /\ k + 4 <= n /\ clean[k+2] \in LetterChars /\ clean[k+3] = ","})
            first(m1, m2, m3, m4) ==
              IF m1 # 0
              THEN <<Capitalize(PrefixAmong(low[m1+2], <<"even", "odd">>))>>
                     \o <<LastLetter(clean[m1])>>
              ELSE IF m2 # 0
              THEN <<FirstLetter(clean[m2+4]), "#dvd", LastLetter(clean[m2])>>
              ELSE IF m3 # 0 THEN existsTerm(m3, LastOf(forSome(m3)))
              ELSE IF m4 # 0
              THEN <<"#forall", clean[m4+2], ",">> \o SubSeq(clean, m4 + 4, n)
              ELSE Unformalized(clean)
        IN first(evenOdd, divisible, exists, forall)
      parseClean(clean) == parse(clean, lowerText(clean), Len(clean))
  IN parseClean(without(prefix(lowerText(text))))

\* mutant: without a goal the proposition is True, the steps are not consulted
generateTheoremSignature_goalOnly(t, theoremName) ==
  LET goalText == IF t.goal # Null /\ t.goal[1].text # << >> THEN t.goal[1].text
                  ELSE << >>
      signature(text) ==
        IF text = << >> THEN <<"theorem", theoremName, ":", "True", ":=", "by">>
        ELSE <<"theorem", theoremName, ":">> \o parseGoalToLean(text) \o <<":=", "by">>
  IN signature(goalText)

generateTheoremSignature(t, theoremName) ==
  LET goalText == IF t.goal # Null /\ t.goal[1].text # << >> THEN t.goal[1].text
                  ELSE IF t.steps # << >> THEN Last(t.steps).text
                  ELSE << >>
      signature(text) ==
        IF text = << >> THEN <<"theorem", theoremName, ":", "True", ":=", "by">>
        ELSE <<"theorem", theoremName, ":">> \o parseGoalToLean(text) \o <<":=", "by">>
  IN signature(goalText)


Sorry(ctx, useAdmit) == IF useAdmit THEN addLine(ctx, <<"sorry">>) ELSE ctx

parseAssumptionToLean(text) ==
  LET \* replace(/^(assume|suppose|let)\s+/i, '')
      prefix(low0) == IF WordsAt(low0, 1, <<{"assume", "suppose", "let"}>>) THEN 1 ELSE 0
      without(drop) == trim(SubSeq(text, drop + 1, Len(text)))
      parse(clean, low, n) ==
        LET \* the position of the property word after
            \* ([a-z])\s+(?:is|be)\s+(?:an?\s+)?
            after(k, articles) ==
              IF k + 3 <= n /\ low[k+2] \in articles /\ Spaced(low, k + 2)
              THEN k + 3 ELSE k + 2
            subject(k) ==
              LastLetter(clean[k]) # "" /\ WordsAt(low, k, <<{low[k]}, Copula>>)
            \* /([a-z])\s+(?:is|be)\s+(?:an?\s+)?(even|odd)(?:\s+integer)?/i
            evenOddFrom(k, next) ==
              IF PrefixAmong(low[next], <<"even", "odd">>) # "" THEN next
              ELSE IF PrefixAmong(low[k+2], <<"even", "odd">>) # "" THEN k + 2 ELSE 0
            evenOddAt(k) == evenOddFrom(k, after(k, Article))
            evenOdd == FirstOf({k \in 1..n : subject(k) /\ evenOddAt(k) # 0})
            \* /([a-z])\s+(?:is|be)\s+(?:a\s+)?prime(?:\s+number)?/i
            primeAt(k) ==
              \/ StartsWith(low[after(k, {"a"})], "prime")
              \/ StartsWith(low[k+2], "prime")
            prime == FirstOf({k \in 1..n : subject(k) /\ primeAt(k)})
            \* /([a-z])\s*([>≥<≤=≠])\s*(\d+)/
            ineq == FirstOf({k \in 1..n :
                      /\ LastLetter(clean[k]) \in LowerChars
                      /\ k + 2 <= n
                      /\ clean[k+1] \in {">", "#ge", "<", "#le", "=", "#ne"}
                      /\ DigitLeading(clean[k+2])})
            first(m1, m2, m3) ==
              IF m1 # 0
              THEN <<Capitalize(PrefixAmong(low[evenOddAt(m1)], <<"even", "odd">>)),
                     LastLetter(clean[m1])>>
              ELSE IF m2 # 0 THEN <<"Nat.Prime", LastLetter(clean[m2])>>
              ELSE IF m3 # 0
              THEN <<LastLetter(clean[m3]), clean[m3+1],
                     SubSeq(clean[m3+2], 1, DigitRun(clean[m3+2], 1))>>
              ELSE Unformalized(clean)
        IN first(evenOdd, prime, ineq)
      parseClean(clean) == parse(clean, lowerText(clean), Len(clean))
  IN parseClean(without(prefix(lowerText(text))))

generateAssumption(assumption, index, ctx, includeComments, useAdmit) ==
  LET hypName == Id("h", index + 1)
      c1 == [ctx EXCEPT !.hypotheses = MapSet(@, assumption.id, hypName)]
      comment(c) ==
        IF includeComments
        THEN addComment(c, <<"Assumption", ToString(index + 1) \o ":">>
                             \o assumption.text)
        ELSE c
      c3 == addLine(comment(c1),
                    <<"have", hypName, ":">> \o parseAssumptionToLean(assumption.text)
                      \o <<":=", "by">>)
  IN addLine(Dedent(Sorry(Indent(c3), useAdmit)), << >>)

\* the longest prefix of the token t made of letters and underscores: ([a-z_]+)
NamePrefix(t) ==
  LET stops == {j \in 1..Len(t) : CharAt(t, j) \notin LetterChars \cup {"_"}}
  IN IF stops = {} THEN t ELSE SubSeq(t, 1, FirstOf(stops) - 1)

extractCaseTarget(text) ==
  LET n == Len(text)
      \* /consider\s+the\s+case\s+(?:where|when|of)\s+([a-z_]+)/i
      p1(low) == FirstOf({k \in 1..n :
              /\ EndsWith(low[k], "consider")
              /\ WordsAt(low, k, <<{low[k]}, {"the"}, {"case"}, {"where", "when", "of"}>>)
              /\ NamePrefix(text[k+4]) # ""})
      \* /cases?\s+on\s+([a-z_]+)/i, which /by\s+cases\s+on\s+([a-z_]+)/i never precedes
      p2(low) == FirstOf({k \in 1..n :
              /\ EndsWith(low[k], "case") \/ EndsWith(low[k], "cases")
              /\ WordsAt(low, k, <<{low[k]}, {"on"}>>)
              /\ NamePrefix(text[k+2]) # ""})
      first(m1, m2) ==
        IF m1 # 0 THEN NamePrefix(text[m1+4])
        ELSE IF m2 # 0 THEN NamePrefix(text[m2+2])
        ELSE ""
      match(low) == first(p1(low), p2(low))
  IN match(lowerText(text))

\* the first single-letter word of the text: /\b([a-z])\b/i
FirstSingleLetter(text) ==
  LET k == FirstOf({q \in 1..Len(text) : text[q] \in SingleLetters})
  IN IF k = 0 THEN "" ELSE text[k]

generateInduction(step, ctx, useAdmit) ==
  LET \* /induction\s+on\s+([a-z])/i
      varMatch(low) ==
        FirstOf({q \in 1..Len(low) :
          /\ EndsWith(low[q], "induction")
          /\ WordsAt(low, q, <<{low[q]}, {"on"}>>)
          /\ FirstLetter(step.text[q+2]) # ""})
      orDefault(k, letter) ==
        IF k # 0 THEN FirstLetter(step.text[k+2])
        ELSE IF letter # "" THEN letter
        ELSE "n"
      emit(inductVar) ==
        LET c1 == Indent(addLine(ctx, <<"induction", inductVar, "with">>))
            c2 == Indent(addLine(c1, <<"|", "zero", "=>">>))
            c3 == Dedent(Sorry(addComment(c2, <<"Base", "case">>), useAdmit))
            c4 == Indent(addLine(c3, <<"|", "succ", inductVar \o "'", "ih", "=>">>))
            c5 == addComment(c4, <<"Inductive", "step", ",", "ih", "is", "the",
                                   "inductive", "hypothesis">>)
        IN Dedent(Dedent(Sorry(c5, useAdmit)))
  IN emit(orDefault(varMatch(lowerText(step.text)), FirstSingleLetter(step.text)))

generateContradiction(step, ctx, useAdmit) ==
  LET c1 == Indent(addLine(ctx, <<"by_contra", "h_contra">>))
      c2 == addComment(c1, <<"Assume", "the", "negation", "and", "derive", "a",
                             "contradiction">>)
  IN Dedent(Sorry(c2, useAdmit))

generateCaseAnalysis(step, ctx, useAdmit) ==
  LET cases(target) ==
        IF target # "" THEN addLine(ctx, <<"cases", target, "with">>)
        ELSE addLine(addLine(ctx, <<"--", "Case", "analysis", "(", "specify",
                                    "target", ")">>),
                     <<"cases", "_", "with">>)
      c1 == cases(extractCaseTarget(step.text))
      c2 == Indent(addLine(Indent(c1), <<"|", "inl", "h_left", "=>">>))
      c3 == Dedent(Sorry(c2, useAdmit))
      c4 == Indent(addLine(c3, <<"|", "inr", "h_right", "=>">>))
  IN Dedent(Dedent(Sorry(c4, useAdmit)))

\* the part of the token t that ([a-z](?:_\d+)?) matches at its start
WitnessName(t) ==
  IF Len(t) >= 3 /\ CharAt(t, 2) = "_" /\ DigitRun(t, 3) >= 1
  THEN SubSeq(t, 1, 2 + DigitRun(t, 3))
  ELSE CharAt(t, 1)

generateExistential(step, ctx, useAdmit) ==
  LET text == step.text
      \* /(?:exists?|choose|take)\s+([a-z](?:_\d+)?)/i
      m1(low) == FirstOf({k \in 1..Len(text) :
                   /\ \E w \in {"exist", "exists", "choose", "take"} : EndsWith(low[k], w)
                   /\ WordsAt(low, k, <<{low[k]}>>)
                   /\ FirstLetter(text[k+1]) # ""})
      \* /\b([a-z])\s*=\s*/i
      m2 == FirstOf({k \in 1..Len(text) :
              text[k] \in SingleLetters /\ k < Len(text) /\ text[k+1] = "="})
      witnessMatch(k1, k2) ==
        IF k1 # 0 THEN WitnessName(text[k1+1])
        ELSE IF k2 # 0 THEN text[k2]
        ELSE "_"
      prove(witness, c1) ==
        IF useAdmit
        THEN Dedent(addLine(addComment(Indent(c1),
               <<"Prove", "the", "property", "holds", "for", witness>>), <<"sorry">>))
        ELSE c1
      emit(witness) == prove(witness, addLine(ctx, <<"use", witness>>))
  IN emit(witnessMatch(m1(lowerText(text)), m2))

generateUniversal(step, ctx, useAdmit) ==
  LET text == step.text
      \* /for (?:all|every)\s+([a-z])/i
      varMatch(low) ==
        FirstOf({q \in 1..Len(text) :
          /\ EndsWith(low[q], "for")
          /\ WordsAt(low, q, <<{low[q]}, {"all", "every"}>>)
          /\ FirstLetter(text[q+2]) # ""})
      name(k) == IF k # 0 THEN FirstLetter(text[k+2]) ELSE "x"
      show(var_name, c1) ==
        IF useAdmit
        THEN Dedent(addLine(addComment(Indent(c1),
               <<"Show", "the", "property", "for", "arbitrary", var_name>>), <<"sorry">>))
        ELSE c1
      emit(var_name) == show(var_name, addLine(ctx, <<"intro", var_name>>))
  IN emit(name(varMatch(lowerText(text))))

generateImplication(step, ctx, useAdmit) ==
  LET prove(c1) ==
        IF useAdmit
        THEN Dedent(addLine(addComment(Indent(c1),
               <<"Assume", "the", "premise", "and", "prove", "the", "conclusion">>),
               <<"sorry">>))
        ELSE c1
  IN prove(addLine(ctx, <<"intro", "h_premise">>))

\* RegExp.test of a pattern that is an alternation of plain words, anywhere in the text
TextContains(low, words) ==
  \E k \in 1..Len(low) : \E w \in words : Contains(low[k], w)

generateDefinition(step, ctx) ==
  LET tactic(low) ==
        IF TextContains(low, {"simplif"}) THEN addLine(ctx, <<"simp", "[*]">>)
        ELSE IF TextContains(low, {"unfold", "expand"})
        THEN addLine(ctx, <<"unfold", "_", "--", "specify", "definition", "to", "unfold">>)
        ELSE addLine(ctx, <<"rw", "[_]", "--", "specify", "rewrite", "rule">>)
  IN tactic(lowerText(step.text))

generateAlgebraic(step, ctx, useAdmit) ==
  LET tactic(low, c1) ==
        IF TextContains(low, {"ring", "algebra"}) THEN addLine(c1, <<"ring">>)
        ELSE IF TextContains(low, {"linear", "add", "subtract"})
        THEN addLine(c1, <<"linarith">>)
        ELSE Sorry(addComment(c1, <<"Algebraic", "manipulation">>), useAdmit)
  IN Dedent(tactic(lowerText(step.text),
                   Indent(addLine(ctx, <<"have", "h_calc", ":", "_", ":=", "by">>))))

\* mutant: ctx.indent-- is left out
generateGenericStep_noDedent(step, ctx, useAdmit) ==
  Sorry(Indent(addLine(ctx, <<"have", "h_" \o step.id, ":", "_", ":=", "by">>)), useAdmit)

generateGenericStep(step, ctx, useAdmit) ==
  LET c1 == addLine(ctx, <<"have", "h_" \o step.id, ":", "_", ":=", "by">>)
  IN Dedent(Sorry(Indent(c1), useAdmit))

generateStep(step, t, ctx, includeComments, useAdmit) ==
  LET comment ==
        IF includeComments
        THEN addComment(ctx, <<"Step", step.id, "(" \o step.type \o "):">> \o step.text)
        ELSE ctx
      block(c1) ==
        CASE step.type = "induction" -> generateInduction(step, c1, useAdmit)
          [] step.type = "contradiction" -> generateContradiction(step, c1, useAdmit)
          [] step.type = "case" -> generateCaseAnalysis(step, c1, useAdmit)
          [] step.type = "existential" -> generateExistential(step, c1, useAdmit)
          [] step.type = "universal" -> generateUniversal(step, c1, useAdmit)
          [] step.type = "implication" -> generateImplication(step, c1, useAdmit)
          [] step.type = "definition" -> generateDefinition(step, c1)
          [] step.type \in {"arithmetic", "algebraic"} ->
               generateAlgebraic(step, c1, useAdmit)
          [] OTHER -> generateGenericStep(step, c1, useAdmit)
  IN addLine(block(comment), << >>)

RECURSIVE generateAssumptions(_, _, _, _, _)
generateAssumptions(assumptions, index, ctx, includeComments, useAdmit) ==
  IF index >= Len(assumptions) THEN ctx
  ELSE generateAssumptions(assumptions, index + 1,
         generateAssumption(assumptions[index + 1], index, ctx, includeComments, useAdmit),
         includeComments, useAdmit)

RECURSIVE generateSteps(_, _, _, _, _)
generateSteps(steps, t, ctx, includeComments, useAdmit) ==
  IF steps = << >> THEN ctx
  ELSE generateSteps(Tail(steps), t,
         generateStep(Head(steps), t, ctx, includeComments, useAdmit),
         includeComments, useAdmit)

\* mutant: the step blocks are emitted before the assumption block
generateProofBody_stepsFirst(t, ctx, includeComments, useAdmit) ==
  LET steps ==
        IF t.steps # << >>
        THEN addLine(generateSteps(t.steps, t, addComment(ctx, <<"Proof", "steps">>),
                                   includeComments, useAdmit),
                     << >>)
        ELSE ctx
      assumptions(c1) ==
        IF t.assumptions # << >>
        THEN addLine(generateAssumptions(t.assumptions, 0,
                       addComment(c1, <<"Assumptions">>), includeComments, useAdmit),
                     << >>)
        ELSE c1
      goal(c2) ==
        IF t.goal # Null THEN addComment(c2, <<"Goal:">> \o t.goal[1].text) ELSE c2
  IN Sorry(goal(assumptions(steps)), useAdmit)

generateProofBody(t, ctx, includeComments, useAdmit) ==
  LET assumptions ==
        IF t.assumptions # << >>
        THEN addLine(generateAssumptions(t.assumptions, 0,
                       addComment(ctx, <<"Assumptions">>), includeComments, useAdmit),
                     << >>)
        ELSE ctx
      steps(c1) ==
        IF t.steps # << >>
        THEN addLine(generateSteps(t.steps, t, addComment(c1, <<"Proof", "steps">>),
                                   includeComments, useAdmit),
                     << >>)
        ELSE c1
      goal(c2) ==
        IF t.goal # Null THEN addComment(c2, <<"Goal:">> \o t.goal[1].text) ELSE c2
  IN Sorry(goal(steps(assumptions)), useAdmit)

defaultOptions == [theoremName |-> "user_proof", includeComments |-> TRUE, useAdmit |-> TRUE]

InvalidTree == <<[indent |-> 0, text |-> <<"--", "Error:", "Invalid", "proof", "tree">>]>>

\* generateLean on a tree object
generateLeanFromTree(t, options) ==
  LET c1 == inferTypes(t, NewCtx)
      c2 == addLine(addLine(c1, <<"--", "Generated", "Lean", "4", "skeleton",
                                  "(rule-based)">>), << >>)
      declarations(c) ==
        IF c.variables # << >>
        THEN addLine(generateVariableDeclarations(c), << >>)
        ELSE c
      c4 == addLine(declarations(c2), generateTheoremSignature(t, options.theoremName))
  IN generateProofBody(t, [c4 EXCEPT !.indent = 1], options.includeComments,
                       options.useAdmit).code


(***************************************************************************)
(* The stages called on JavaScript values.                                 *)
(***************************************************************************)
\* the entry s of a `sentences` array as the loop of buildProofTree reads it
EntryOf(s) ==
  IF ~Truthy(s) THEN NullSentence
  ELSE LET tx == TextOf(s)
       IN [isNull |-> FALSE, type |-> s.type,
           text |-> IF tx.kind = "string" THEN tx.text
                    ELSE IF Truthy(tx) THEN <<ToString(tx.num)>>
                    ELSE << >>]

\* the handlers that apply a string method to s.text (matchAll, match, toLowerCase)
EntryRaises(s) ==
  /\ Truthy(s)
  /\ Truthy(TextOf(s))
  /\ TypeOf(TextOf(s)) # "string"
  /\ s.type \notin {"contradiction", "case", "universal"}

buildProofTreeCall(ss, ents) ==
  IF ~Truthy(ss) \/ ss.kind # "array" THEN Returns(EmptyTree)
  ELSE IF \E k \in 1..Len(ss.items) : EntryRaises(ss.items[k]) THEN Raises
  ELSE Returns(buildProofTree([k \in 1..Len(ss.items) |-> EntryOf(ss.items[k])], ents))

\* the `tree` argument of generateLean: a tree object or any other value
TreeArg(t) == [isTree |-> TRUE, js |-> JsObject(Undefined), tree |-> t]
ValueArg(v) == [isTree |-> FALSE, js |-> v, tree |-> EmptyTree]

generateLean(arg, options) ==
  IF ~arg.isTree /\ (~Truthy(arg.js) \/ TypeOf(arg.js) # "object")
  THEN Returns(InvalidTree)
  ELSE Returns(generateLeanFromTree(arg.tree, options))

(***************************************************************************)
(* Specification SpecStages: one stage called on one value.                *)
(***************************************************************************)
MaxEntries == 2

StageEntries ==
  {JsNull, JsUndefined, JsNumber(5), JsString(TVarX), JsObject(Undefined),
   JsObject("step"), JsSentence("step", << >>), JsSentence("assumption", TVarX),
   JsSentence("step", TPlain), JsSentence("conclusion", TVarX),
   JsNumberText("step", 5)}

NonArrays ==
  {JsUndefined, JsNull, JsNumber(0), JsNumber(5), JsBoolean(FALSE), JsBoolean(TRUE),
   JsString(<< >>), JsString(<<" ">>), JsString(<<"\n", " ">>), JsString(TPlain),
   JsString(<<" ">> \o TVarX \o <<".", "Thus", "y", "holds", ".">>),
   JsObject(Undefined)}

Arrays == {JsArray(items) : items \in TextsUpTo(StageEntries, MaxEntries)}

StageCall(stage, arg, ents, options) ==
  [stage |-> stage, arg |-> arg, ents |-> ents, options |-> options]

NoEntities == [isArray |-> FALSE, items |-> << >>]

OptionInputs ==
  {defaultOptions, [defaultOptions EXCEPT !.theoremName = "main"],
   [defaultOptions EXCEPT !.useAdmit = FALSE],
   [defaultOptions EXCEPT !.includeComments = FALSE]}

\* the sentences of Scenario A
A1 == <<"Let", "n", "be", "an", "integer", ".">>
A2 == <<"Assume", "n", "is", "even", ".">>
A3 == <<"Then", "n", "=", "2k", "for", "some", "k", ".">>
A4 == <<"Therefore", "n", "is", "even", ".">>

\* the classified sentences the trees handed to generateLean are built from
\* a text with a line break and a comment terminator in it
TBroken == <<"Suppose", "p", "\n", "holds", "*/">>

GeneratorSentences ==
  {Sentence("assumption", A1), Sentence("assumption", A2), Sentence("existential", A3),
   Sentence("conclusion", A4), Sentence("step", TPlain), Sentence("case", TPlain),
   Sentence("assumption", TBroken)}

GeneratorTrees ==
  {EmptyTree}
  \cup {buildProofTree(ss, NoEntities) : ss \in TextsUpTo(GeneratorSentences, MaxEntries)}

\* one tree for each technique of generateStep that GeneratorSentences lacks
TechniqueTrees ==
  {buildProofTree(<<Sentence("assumption", A2), Sentence(ty, TVarX)>>, NoEntities) :
     ty \in {"induction", "contradiction", "universal", "implication", "definition",
             "arithmetic", "algebraic"}}

\* texts that name the variable n five times, once, and with a type word; a text
\* of more than exampleMaxLength characters
TFiveN == <<"n", "+", "n", "+", "n", "+", "n", "+", "n", "is", "even">>
TOneN == <<"Thus", "n", "is", "odd">>
TLong == [k \in 1..18 |-> IF k = 1 THEN "m" ELSE "plus"]

\* texts that apply a letter to an argument: f, and the letter a that
\* extractVariables leaves out
TApplyF == <<"f", "(", "x", ")", "holds">>
TApplyA == <<"a", "(", "x", ")", "holds">>

EntityTexts == {TFiveN, TOneN, A1, TLong, TApplyF, TApplyA}

\* the arrays of classified sentences handed to extractEntities
SentenceArrays ==
  {JsArray([k \in 1..Len(texts) |-> JsSentence("step", texts[k])]) :
     texts \in TextsUpTo(EntityTexts, MaxEntries)}

StageCalls ==
  {StageCall(stage, ValueArg(v), NoEntities, defaultOptions) :
     stage \in {"tokenizeSentences", "extractEntities"}, v \in NonArrays \cup Arrays}
  \cup {StageCall("extractEntities", ValueArg(v), NoEntities, defaultOptions) :
          v \in SentenceArrays}
  \cup {StageCall("buildProofTree", ValueArg(v), ents, defaultOptions) :
          v \in NonArrays \cup Arrays, ents \in EntityInputs}
  \cup {StageCall("generateLean", ValueArg(v), NoEntities, options) :
          v \in NonArrays \cup {JsArray(<< >>)}, options \in OptionInputs}
  \cup {StageCall("generateLean", TreeArg(t), NoEntities, options) :
          t \in GeneratorTrees \cup TechniqueTrees
                 \cup {buildProofTree(<<Sentence("assumption", TVarX),
                                        Sentence("conclusion", TVarX)>>, NoEntities)},
          options \in OptionInputs}

Idle ==
  /\ sentences = << >>
  /\ entities = NoEntities
  /\ tree = NewTree(entities)
  /\ stepId = 0
  /\ createdSteps = << >>
  /\ variableScope = << >>
  /\ caseStack = << >>
  /\ renderer = RendererLoaded

InitStages ==
  /\ pc = "call"
  /\ input \in StageCalls
  /\ output = Returns(<< >>)
  /\ Idle

StageReturn(result) ==
  /\ pc' = "returned"
  /\ output' = result
  /\ UNCHANGED <<sentences, entities, tree, stepId, createdSteps, variableScope,
                 caseStack, input, renderer>>

CallTokenizeSentences ==
  /\ pc = "call" /\ input.stage = "tokenizeSentences"
  /\ StageReturn(Returns(tokenizeSentences(input.arg.js)))

CallExtractEntities ==
  /\ pc = "call" /\ input.stage = "extractEntities"
  /\ StageReturn(extractEntities(input.arg.js))

CallBuildProofTree ==
  /\ pc = "call" /\ input.stage = "buildProofTree"
  /\ StageReturn(buildProofTreeCall(input.arg.js, input.ents))

CallGenerateLean ==
  /\ pc = "call" /\ input.stage = "generateLean"
  /\ StageReturn(generateLean(input.arg, input.options))

NextStages ==
  \/ CallTokenizeSentences
  \/ CallExtractEntities
  \/ CallBuildProofTree
  \/ CallGenerateLean

SpecStages == InitStages /\ [][NextStages]_vars


StageReturned(stage) == pc = "returned" /\ input.stage = stage

\* the value handed to the stage is not an array, or is the empty array
EmptyOrNonArray(v) == v.kind # "array" \/ v.items = << >>

\* an entry the loop of buildProofTree is said to skip: null, or without text
NullOrNoText(s) ==
  \/ s.kind \in {"null", "undefined"}
  \/ s.kind = "object" /\ (s.textKind = "undefined" \/ (s.textKind = "string" /\ s.text = << >>))

WithoutSkipped(v) ==
  JsArray(SelectAt(v.items, {k \in 1..Len(v.items) : ~NullOrNoText(v.items[k])}))

CharCount(text) ==
  LET count[k \in 0..Len(text)] ==
        IF k = 0 THEN 0
        ELSE count[k-1] + TokenLen(text[k]) + (IF Spaced(text, k) THEN 1 ELSE 0)
  IN count[Len(text)]

\* the names of the entities matched in the sentence s alone
MatchedIn(s) ==
  LET ents == extractFromSentence(s, << >>)
  IN {ents[k].name : k \in 1..Len(ents)}

\* the first up to n elements of a sequence
FirstN(s, n) == SubSeq(s, 1, IF Len(s) < n THEN Len(s) ELSE n)

\* C13: extractEntities returns at most one entity per name; the examples of an
\* entity are pairwise distinct, at most 3, each of at most 80 characters, and are
\* the truncated texts of the first up to three distinct sentences, in input order,
\* in which the entity was matched.
C13_ExamplesAccumulate ==
  (StageReturned("extractEntities") /\ input.arg.js \in SentenceArrays) =>
    LET ents == output.value
        items == input.arg.js.items
        mentions(name) ==
          SelectAt(items, {j \in 1..Len(items) : name \in MatchedIn(items[j])})
        snippets(found) ==
          SetAddAll(<< >>, [j \in 1..Len(found) |->
                             sliceFrom(found[j].text, 1, exampleMaxLength)])
    IN /\ ~output.raised
       /\ \A p, q \in 1..Len(ents) : p # q => ents[p].name # ents[q].name
       /\ \A k \in 1..Len(ents) :
            /\ NoDup(ents[k].examples)
            /\ Len(ents[k].examples) <= maxExamplesReturned
            /\ \A q \in 1..Len(ents[k].examples) :
                 CharCount(ents[k].examples[q]) <= exampleMaxLength
            /\ ents[k].examples = FirstN(snippets(mentions(ents[k].name)), maxExamplesReturned)

\* C23: extractEntities records an entity of kind function for every single letter
\* that is followed by an opening parenthesis in a sentence.
C23_CustomFunctions ==
  (StageReturned("extractEntities") /\ input.arg.js \in SentenceArrays) =>
    \A j \in 1..Len(input.arg.js.items) :
      LET applied(text) ==
            {text[k] : k \in {q \in 1..(Len(text) - 1) :
                                text[q] \in SingleLetters /\ text[q + 1] = "("}}
      IN \A f \in applied(input.arg.js.items[j].text) :
           \E k \in 1..Len(output.value) :
             output.value[k].name = f /\ output.value[k].type = "function"

(***************************************************************************)
(* Properties of generateLean (specification SpecStages).                  *)
(***************************************************************************)
\* generateLean has returned the code of a tree object
Generated == StageReturned("generateLean") /\ input.arg.isTree

\* the positions of the lines of the emitted code whose first token is word
CodeLinesStarting(word) ==
  {k \in 1..Len(output.value) :
     output.value[k].text # << >> /\ output.value[k].text[1] = word}

TrueSignature == <<"theorem", input.options.theoremName, ":", "True", ":=", "by">>

\* the code has one signature line and its text is signature
SignatureIs(signature) ==
  /\ Cardinality(CodeLinesStarting("theorem")) = 1
  /\ \A k \in CodeLinesStarting("theorem") : output.value[k].text = signature

\* the signature is followed by `sorry` alone
SorryFollowsSignature ==
  \A k \in CodeLinesStarting("theorem") :
    /\ Len(output.value) = k + 1
    /\ output.value[k + 1] = [indent |-> 1, text |-> <<"sorry">>]

\* C11 as stated: for a tree without goal, whatever its assumptions and steps, the
\* signature line is exactly `theorem <name> : True := by`; for the tree of the
\* empty input the signature is followed by a trailing `sorry`.
C11_TrueWithoutGoal ==
  LET t == input.arg.tree
  IN (Generated /\ t.goal = Null) =>
       /\ SignatureIs(TrueSignature)
       /\ (t.assumptions = << >> /\ t.steps = << >> /\ input.options.useAdmit)
            => SorryFollowsSignature

\* C11 amended: the proposition of the signature is synthesized from the text of
\* the goal, or without goal from the text of the last step; for a tree with
\* neither goal nor step, whatever its assumptions, the signature line is exactly
\* `theorem <name> : True := by`; for the tree of the empty input the signature is
\* followed by a trailing `sorry` (useAdmit true).
C11_TrueWithoutGoalAndSteps ==
  LET t == input.arg.tree
      from(text) ==
        <<"theorem", input.options.theoremName, ":">> \o parseGoalToLean(text)
          \o <<":=", "by">>
  IN Generated =>
       /\ t.goal # Null => SignatureIs(from(t.goal[1].text))
       /\ (t.goal = Null /\ t.steps # << >>) => SignatureIs(from(Last(t.steps).text))
       /\ (t.goal = Null /\ t.steps = << >>) => SignatureIs(TrueSignature)
       /\ (t.goal = Null /\ t.assumptions = << >> /\ t.steps = << >>
             /\ input.options.useAdmit)
            => SorryFollowsSignature

C11_Witness ==
  /\ Generated
  /\ input.arg.tree.goal = Null
  /\ input.arg.tree.steps = << >>
  /\ Len(input.arg.tree.assumptions) = MaxEntries
  /\ SignatureIs(TrueSignature)
  /\ ~SorryFollowsSignature

\* the positions of the lines of the emitted code that are exactly text
CodeLinesOf(text) == {k \in 1..Len(output.value) : output.value[k].text = text}

\* the `have h<k> : ...` lines of the assumptions of the tree t
HypothesisLines(t) ==
  {k \in CodeLinesStarting("have") :
     output.value[k].text[2] \in {Id("h", q) : q \in 1..Len(t.assumptions)}}

\* the `-- Step <id> (<type>): ...` lines that open the step blocks
StepCommentLines ==
  {k \in CodeLinesStarting("--") :
     Len(output.value[k].text) >= 2 /\ output.value[k].text[2] = "Step"}

BlankAt(k) == k \in 1..Len(output.value) /\ output.value[k].text = << >>

\* C14: generateLean emits the header comment, then the variable declarations
\* (only when a variable is tracked), then the theorem signature, then the proof
\* body; in the body the whole assumption block precedes every step block, every
\* step block is followed by a blank line, and with useAdmit the last non-empty
\* line is `sorry`.
C14_EmissionOrder ==
  Generated =>
    LET code == output.value
        t == input.arg.tree
        tracked == inferTypes(t, NewCtx).variables
        declarations == CodeLinesStarting("variable")
        signature == FirstOf(CodeLinesStarting("theorem"))
        assumptionBlock == FirstOf(CodeLinesOf(<<"--", "Assumptions">>))
        stepBlocks == FirstOf(CodeLinesOf(<<"--", "Proof", "steps">>))
        lastWritten == LastOf({k \in 1..Len(code) : code[k].text # << >>})
    IN /\ code[1].text = <<"--", "Generated", "Lean", "4", "skeleton", "(rule-based)">>
       /\ BlankAt(2)
       /\ Cardinality(CodeLinesStarting("theorem")) = 1
       /\ Cardinality(declarations) = Len(tracked)
       /\ tracked = << >> => signature = 3
       /\ tracked # << >> =>
            /\ code[3].text = <<"--", "Variable", "declarations">>
            /\ declarations = 4..(3 + Len(tracked))
            /\ BlankAt(4 + Len(tracked))
            /\ signature = 5 + Len(tracked)
       /\ \A k \in 1..Len(code) : (code[k].indent = 0) = (k <= signature)
       /\ (assumptionBlock # 0) = (t.assumptions # << >>)
       /\ (stepBlocks # 0) = (t.steps # << >>)
       /\ Cardinality(HypothesisLines(t)) = Len(t.assumptions)
       /\ t.assumptions # << >> =>
            /\ assumptionBlock = signature + 1
            /\ \A k \in HypothesisLines(t) :
                 assumptionBlock < k /\ (stepBlocks # 0 => k < stepBlocks)
       /\ t.steps # << >> =>
            /\ assumptionBlock < stepBlocks
            /\ BlankAt(Len(code) - (IF input.options.useAdmit THEN 1 ELSE 0)
                          - (IF t.goal # Null THEN 1 ELSE 0))
       /\ input.options.includeComments =>
            /\ Cardinality(StepCommentLines) = Len(t.steps)
            /\ \A k \in StepCommentLines :
                 /\ stepBlocks < k
                 /\ LET later == {q \in StepCommentLines : q > k}
                        end == IF later = {} THEN LastOf({q \in 1..Len(code) :
                                                            BlankAt(q) /\ BlankAt(q + 1)})
                               ELSE FirstOf(later) - 1
                    IN k < end /\ BlankAt(end)
       /\ input.options.useAdmit => code[lastWritten].text = <<"sorry">>

C14_Witness ==
  /\ Generated
  /\ input.options = defaultOptions
  /\ Len(input.arg.tree.assumptions) = 1
  /\ Len(input.arg.tree.steps) = 1
  /\ CodeLinesStarting("variable") # {}
  /\ \A k \in HypothesisLines(input.arg.tree) : \A q \in StepCommentLines : k < q

\* the position of the comment marker of a line, 0 when it has none
CommentStart(line) == FirstOf({q \in 1..Len(line) : line[q] = "--"})

\* C12: in the emitted code every comment runs to the end of its line and holds
\* no code: after a `--` marker there is neither a line break nor a comment
\* terminator (the interpolated text is escaped), and no `:=` of the code.
C12_CommentsClosed ==
  Generated =>
    \A k \in 1..Len(output.value) :
      LET line == output.value[k].text
      IN CommentStart(line) # 0 =>
           \A q \in (CommentStart(line) + 1)..Len(line) : line[q] \notin {"\n", "*/", ":="}


(***************************************************************************)
(* Specification SpecPipeline: the `generate-lean` handler of main.js run  *)
(* on a text of at most MaxProofSentences sentences of SentencePool, one   *)
(* action per stage.  The validation of the code by the Lean process,      *)
(* which follows the four stages, is outside the model.                    *)
(***************************************************************************)
MaxProofSentences == 4

SentencePool == {A1, A2, A3, A4, <<"It", "follows", "that", "k", "is", "odd", ".">>}

English == {Flatten(ss) : ss \in TextsUpTo(SentencePool, MaxProofSentences)}

Failure == [ok |-> FALSE, lean |-> << >>]

InitPipeline ==
  /\ pc = "start"
  /\ input \in {JsString(text) : text \in English}
  /\ output = Failure
  /\ Idle

\* main.js: the guard on englishText
RejectInput ==
  /\ pc = "start"
  /\ ~Truthy(input) \/ TypeOf(input) # "string"
  /\ pc' = "done"
  /\ output' = Failure
  /\ UNCHANGED <<sentences, entities, tree, stepId, createdSteps, variableScope,
                 caseStack, input, renderer>>

TokenizeSentences ==
  /\ pc = "start"
  /\ Truthy(input) /\ TypeOf(input) = "string"
  /\ pc' = "tokenized"
  /\ sentences' = tokenizeSentences(input)
  /\ UNCHANGED <<entities, tree, stepId, createdSteps, variableScope, caseStack, input,
                 output, renderer>>

ExtractEntities ==
  /\ pc = "tokenized"
  /\ LET continue(result) ==
           IF result.raised
           THEN pc' = "done" /\ output' = Failure /\ UNCHANGED entities
           ELSE /\ pc' = "extracted"
                /\ entities' = [isArray |-> TRUE, items |-> result.value]
                /\ UNCHANGED output
     IN continue(extractEntities(
                   JsArray([k \in 1..Len(sentences) |->
                              JsSentence(sentences[k].type, sentences[k].text)])))
  /\ UNCHANGED <<sentences, tree, stepId, createdSteps, variableScope, caseStack, input, renderer>>

BuildProofTree ==
  /\ pc = "extracted"
  /\ pc' = "built"
  /\ SetBuilder(processAll(sentences, NewBuilder(entities), entities))
  /\ UNCHANGED <<sentences, entities, input, output>>

ValidateTree ==
  /\ pc = "built"
  /\ pc' = "validated"
  /\ tree' = validateTree(tree).tree
  /\ UNCHANGED <<sentences, entities, stepId, createdSteps, variableScope, caseStack,
                 input, output, renderer>>

GenerateLean ==
  /\ pc = "validated"
  /\ pc' = "done"
  /\ LET reply(result) ==
           IF result.raised \/ result.value = << >> THEN Failure
           ELSE [ok |-> TRUE, lean |-> result.value]
     IN output' = reply(generateLean(TreeArg(tree), defaultOptions))
  /\ UNCHANGED <<sentences, entities, tree, stepId, createdSteps, variableScope,
                 caseStack, input, renderer>>

NextPipeline ==
  \/ RejectInput
  \/ TokenizeSentences
  \/ ExtractEntities
  \/ BuildProofTree
  \/ ValidateTree
  \/ GenerateLean

SpecPipeline == InitPipeline /\ [][NextPipeline]_vars

ScenarioA == JsString(A1 \o A2 \o A3 \o A4)

\* buildProofTree has returned the tree of Scenario A
ScenarioABuilt == input = ScenarioA /\ pc = "validated"

ScenarioAClassified ==
  /\ Len(sentences) = 4
  /\ sentences[2].type = "assumption"
  /\ sentences[3].type = "existential"
  /\ sentences[4].type = "conclusion"

ScenarioAStepAndGoal ==
  /\ Len(tree.steps) = 1
  /\ tree.steps[1].type = "existential"
  /\ tree.steps[1].text = A3
  /\ ScopeHas(variableScope, "k")
  /\ ScopeGet(variableScope, "k") = <<tree.steps[1].id>>
  /\ tree.goal # Null
  /\ tree.goal[1].text = A4
  /\ tree.goal[1].dependsOn = <<tree.steps[1].id>>

\* C9 as stated: the tree of Scenario A has exactly 1 assumption and exactly 1 step,
\* the existential step that registers the witness k, and the goal depends on
\* exactly that step.
C9_OneAssumption ==
  ScenarioABuilt =>
    /\ ScenarioAClassified
    /\ Len(tree.assumptions) = 1
    /\ ScenarioAStepAndGoal

\* C9 amended: the tree of Scenario A has exactly 2 assumptions, a1 for sentence 1
\* ("Let n be an integer.", classified assumption as well) and a2 for sentence 2,
\* and exactly 1 step, the existential step that registers the witness k, and the
\* goal depends on exactly that step.
C9_TwoAssumptions ==
  ScenarioABuilt =>
    /\ ScenarioAClassified
    /\ sentences[1].type = "assumption"
    /\ Len(tree.assumptions) = 2
    /\ tree.assumptions[1].id = "a1" /\ tree.assumptions[1].text = A1
    /\ tree.assumptions[2].id = "a2" /\ tree.assumptions[2].text = A2
    /\ ScenarioAStepAndGoal

C9_Witness ==
  /\ ScenarioABuilt
  /\ Len(tree.steps) = 1
  /\ tree.steps[1].id = "s1"
  /\ ScopeHas(variableScope, "k")

LinesStarting(word) ==
  {k \in 1..Len(output.lean) :
     output.lean[k].text # << >> /\ output.lean[k].text[1] = word}

\* C10: for the tree of Scenario A generateLean emits a theorem signature whose
\* proposition is `Even n`, and the block of the existential step is the
\* witness-introduction tactic naming k, `use k`.
C10_EvenAndUseK ==
  (input = ScenarioA /\ pc = "done") =>
    /\ output.ok
    /\ \E k \in LinesStarting("theorem") :
         output.lean[k].text = <<"theorem", "user_proof", ":", "Even", "n", ":=", "by">>
    /\ LinesStarting("use") # {}
    /\ \A k \in LinesStarting("use") : output.lean[k].text = <<"use", "k">>

(***************************************************************************)
(* Specification SpecInduction: buildProofTree run on arrays that hold     *)
(* induction sentences with and without a pattern of                       *)
(* extractInductionVariable in them.                                       *)
(***************************************************************************)
MaxInductionSentences == 3

TForAllY == <<"for", "all", "y", "in", "#nat">>
TProveBy == <<"prove", "by", "induction", "that", "x", "exceeds", "y">>

InductionSentences ==
  {Sentence("assumption", TVarX), Sentence("existential", TVarY), Sentence("step", TPlain),
   Sentence("induction", TVarX), Sentence("induction", TInductOnX),
   Sentence("induction", TForAllY), Sentence("induction", TProveBy)}

IterateInduction(s) ==
  /\ pc = "loop"
  /\ Len(sentences) < MaxInductionSentences
  /\ sentences' = Append(sentences, s)
  /\ SetBuilder(processSentence(s, Cur, entities))
  /\ UNCHANGED <<pc, entities, input, output>>

BeforeInduction == \E s \in InductionSentences : s.type # "induction" /\ IterateInduction(s)

InductionEntry == \E s \in InductionSentences : s.type = "induction" /\ IterateInduction(s)

NextInduction == BeforeInduction \/ InductionEntry \/ Return

SpecInduction == Init /\ [][NextInduction]_vars

\* none of the three patterns can match a text without the words they start from
NoInductionPattern(text) ==
  \A k \in 1..Len(text) : lowerText(text)[k] \notin {"induction", "for"}

\* C21: an induction sentence that matches none of the three patterns takes its
\* first bare letter token as the induction variable, so the induction step depends
\* on the ids VariableScope holds for that letter.
C21_FirstLetterFallback ==
  [][ (/\ StepAdded /\ AddedStep.type = "induction"
       /\ NoInductionPattern(AddedSentence.text)
       /\ ScopeHas(variableScope, FirstSingleLetter(AddedSentence.text)))
      => Range(ScopeGet(variableScope, FirstSingleLetter(AddedSentence.text)))
           \subseteq Range(AddedStep.dependsOn) ]_vars

(***************************************************************************)
(* Specification SpecValidate: validateTree run on a tree whose steps and  *)
(* goal carry an arbitrary dependency graph.                               *)
(***************************************************************************)
MaxGraphSteps == 2

GraphIds == {Id("s", k) : k \in 1..MaxGraphSteps} \cup {"goal"}

\* the dependsOn arrays of the graph: none, one or two distinct ids, in both orders
DepLists ==
  {<< >>} \cup {<<a>> : a \in GraphIds}
  \cup {<<p[1], p[2]>> : p \in {q \in GraphIds \X GraphIds : q[1] # q[2]}}

GraphGoals ==
  {Null} \cup {Some([id |-> "goal", text |-> TPlain, dependsOn |-> d, variables |-> << >>]) :
                 d \in DepLists}

GraphTrees ==
  {[NewTree(NoEntities) EXCEPT
      !.steps = [k \in 1..MaxGraphSteps |->
                   [NewStep(Id("s", k), TPlain, "step", "undefined") EXCEPT
                      !.dependsOn = deps[k]]],
      !.goal = g] :
     deps \in [1..MaxGraphSteps -> DepLists], g \in GraphGoals}

InitValidate ==
  /\ pc = "validate"
  /\ input \in GraphTrees
  /\ tree = input
  /\ output = << >>
  /\ sentences = << >>
  /\ entities = NoEntities
  /\ stepId = 0
  /\ createdSteps = << >>
  /\ variableScope = << >>
  /\ caseStack = << >>
  /\ renderer = RendererLoaded

ValidateGraph ==
  /\ pc = "validate"
  /\ pc' = "validated"
  /\ LET return(validated) == tree' = validated.tree /\ output' = validated.warnings
     IN return(validateTree(tree))
  /\ UNCHANGED <<sentences, entities, stepId, createdSteps, variableScope,
                 caseStack, input, renderer>>

NextValidate == ValidateGraph

SpecValidate == InitValidate /\ [][NextValidate]_vars

Validated == pc = "validated"

\* C22: on an arbitrary dependency graph the cycle check clears the dependsOn of
\* every step that is on a cycle, leaves no cycle through a step, leaves the goal
\* as it was even when the goal is reported, and returns a list of warnings.
C22_CyclesCleared ==
  Validated =>
    /\ \A k \in 1..Len(input.steps) :
         OnCycle(input.steps[k].id, DepEdges(input)) => tree.steps[k].dependsOn = << >>
    /\ \A n \in StepIds(tree) : ~OnCycle(n, DepEdges(tree))
    /\ \A k \in 1..Len(tree.steps) :
         tree.steps[k].dependsOn \in {<< >>, input.steps[k].dependsOn}
    /\ tree.goal = input.goal
    /\ Range(output) \subseteq GraphIds

C22_Witness ==
  /\ Validated
  /\ input.steps[1].dependsOn = <<"goal", "s2">>
  /\ input.steps[2].dependsOn = <<"s1">>
  /\ tree.goal # Null /\ tree.goal[1].dependsOn = <<"s1", "goal">>
  /\ "goal" \in Range(output)
  /\ \A k \in 1..Len(tree.steps) : tree.steps[k].dependsOn = << >>

(***************************************************************************)
(* Specification SpecMarkers: the last sentence of a proof starts with a   *)
(* discourse marker; it is classified, then the tree is built from the     *)
(* sentences before it and from it.                                        *)
(***************************************************************************)
MaxMarkerTokens == 2

Markers == {"Thus", "hence", "so", "Therefore", "consequently"}

MarkerVocabulary == {"x", "holds", "we", "conclude", "that", "by", "induction"}

MarkerTexts ==
  {<<m>> \o rest : m \in Markers, rest \in TextsUpTo(MarkerVocabulary, MaxMarkerTokens)}

\* the classified sentences before the last one
EarlierSentences ==
  {<< >>, <<Sentence("assumption", TVarX)>>, <<Sentence("conclusion", TPlain)>>}

InitMarkers ==
  /\ pc = "classifySentence"
  /\ input \in MarkerTexts
  /\ sentences \in EarlierSentences
  /\ output = << >>
  /\ entities = NoEntities
  /\ tree = NewTree(entities)
  /\ stepId = 0
  /\ createdSteps = << >>
  /\ variableScope = << >>
  /\ caseStack = << >>
  /\ renderer = RendererLoaded

ClassifyLast ==
  /\ pc = "classifySentence"
  /\ pc' = "buildProofTree"
  /\ output' = <<classifySentence(input)>>
  /\ sentences' = Append(sentences, classifySentence(input))
  /\ UNCHANGED <<entities, tree, stepId, createdSteps, variableScope, caseStack, input, renderer>>

BuildLast ==
  /\ pc = "buildProofTree"
  /\ pc' = "built"
  /\ tree' = buildProofTree(sentences, entities)
  /\ UNCHANGED <<sentences, entities, stepId, createdSteps, variableScope, caseStack,
                 input, output, renderer>>

NextMarkers == ClassifyLast \/ BuildLast

SpecMarkers == InitMarkers /\ [][NextMarkers]_vars

\* the sentence starts with thus, hence or so
StartsWithStepMarker(text) == toLowerCase(text[1]) \in {"thus", "hence", "so"}

\* C28: a sentence that starts with thus, hence or so is never classified
\* conclusion, and is classified step when none of rules 1-8 matches, although it
\* meets the conclusion trigger; of the sentence-initial markers only therefore and
\* consequently give conclusion; the tree built from a proof whose last sentence
\* starts with thus, hence or so has no goal from that sentence.
C28_MarkersAreSteps ==
  pc # "classifySentence" =>
    /\ StartsWithStepMarker(input) =>
         /\ output[1].type # "conclusion"
         /\ Triggered("conclusion", input)
         /\ (\A k \in 1..8 : ~Triggered(RuleOrder[k], input)) => output[1].type = "step"
         /\ pc = "built" => (tree.goal = Null \/ tree.goal[1].text # output[1].text)
    /\ output[1].type = "conclusion" =>
         toLowerCase(input[1]) \in {"therefore", "consequently"}

C28_Witness ==
  /\ pc = "built"
  /\ input = <<"hence", "x", "holds">>
  /\ output[1].type = "step"
  /\ tree.goal = Null
  /\ Len(tree.assumptions) = 1
  /\ tree.steps[1].text = input

(***************************************************************************)
(* Indentation of the proof body (specification SpecStages).               *)
(***************************************************************************)
\* the context generateLean hands to generateProofBody, without the code so far
BodyCtx == [NewCtx EXCEPT !.indent = 1]

\* the block leaves the level at 1 and writes its first line at 1, none below 1
BlockKeepsLevel(after) ==
  /\ after.indent = 1
  /\ after.code # << >> /\ after.code[1].indent = 1
  /\ \A k \in 1..Len(after.code) : after.code[k].indent >= 1

\* C29: in the proof body the indentation level is never negative, every assumption
\* block and every step block starts at level 1 and leaves the level at 1, for all
\* values of useAdmit and includeComments, and the trailing `sorry` is at level 1.
C29_IndentBalanced ==
  Generated =>
    LET code == output.value
        t == input.arg.tree
        comments == input.options.includeComments
        admit == input.options.useAdmit
        signature == FirstOf(CodeLinesStarting("theorem"))
    IN /\ \A k \in 1..Len(code) :
            /\ (k <= signature => code[k].indent = 0)
            /\ (k > signature => code[k].indent >= 1)
       /\ \A k \in 1..Len(t.assumptions) :
            BlockKeepsLevel(generateAssumption(t.assumptions[k], k - 1, BodyCtx,
                                               comments, admit))
       /\ \A k \in 1..Len(t.steps) :
            BlockKeepsLevel(generateStep(t.steps[k], t, BodyCtx, comments, admit))
       /\ \A k \in (signature + 1)..Len(code) : BlankAt(k) => code[k].indent = 1
       /\ admit => Last(code) = [indent |-> 1, text |-> <<"sorry">>]

C29_Witness ==
  /\ Generated
  /\ input.arg.tree \in TechniqueTrees
  /\ input.arg.tree.steps[1].type = "induction"
  /\ input.options.useAdmit
  /\ \E k \in 1..Len(output.value) : output.value[k].indent = 3
  /\ Last(output.value) = [indent |-> 1, text |-> <<"sorry">>]

(***************************************************************************)
(* renderer.js: handleGenerate.  The function runs to its `await` in one   *)
(* step; the rest of it runs in one step when the promise of               *)
(* api.generateLean settles.  It may be called at any time: by the button, *)
(* by the command palette and by the keyboard shortcut.                    *)
(***************************************************************************)
MaxGenerations == 2

\* the contents of the editor: empty, blank, and two proofs
ProofInputs == {<< >>, <<" ">>, TVarX, TVarY}

\* the ways the promise of api.generateLean settles: a result with ok false, a
\* result without validation, with a passed or failed validation, a rejection
Outcomes == {"notOk", "noValidation", "validated", "invalid", "rejected"}

\* addHistoryItem: the item is inserted before the first child
addHistoryItem(r, text, status) ==
  [r EXCEPT !.history = <<[text |-> text, status |-> status]>> \o @]

\* updateHistoryItemStatus: every item with this text gets the status
updateHistoryItemStatus(r, text, status) ==
  [r EXCEPT !.history = [k \in 1..Len(@) |->
                           IF @[k].text = text THEN [@[k] EXCEPT !.status = status]
                           ELSE @[k]]]

showNotification(r, message) == [r EXCEPT !.notification = message]

\* mutant: the guard on isGenerating is left out
handleGenerate_noGuard(r) ==
  LET start(text) ==
        IF text = << >> THEN showNotification(r, "Please write a proof first")
        ELSE [addHistoryItem([r EXCEPT !.messages = Append(@, text)], text, "pending")
                EXCEPT !.isGenerating = TRUE,
                       !.generateBtn = [textContent |-> "Generating...", disabled |-> TRUE],
                       !.requests = Append(@, text),
                       !.sent = @ + 1]
  IN start(trim(r.englishInput))

\* lines 428-452: handleGenerate up to the await
handleGenerate(r) ==
  LET start(text) ==
        IF text = << >> THEN showNotification(r, "Please write a proof first")
        ELSE IF r.isGenerating THEN showNotification(r, "Already generating...")
        ELSE [addHistoryItem([r EXCEPT !.messages = Append(@, text)], text, "pending")
                EXCEPT !.isGenerating = TRUE,
                       !.generateBtn = [textContent |-> "Generating...", disabled |-> TRUE],
                       !.requests = Append(@, text),
                       !.sent = @ + 1]
  IN start(trim(r.englishInput))

\* mutant: the finally block is missed when the result has ok false
handleGenerateSettled_earlyReturn(r, k, outcome) ==
  LET finally(after) ==
        IF outcome = "notOk" THEN after
        ELSE [after EXCEPT !.isGenerating = FALSE,
                           !.generateBtn = [textContent |-> "Generate", disabled |-> FALSE]]
      settle(text, taken) ==
        CASE outcome \in {"notOk", "rejected", "invalid"} ->
               finally(updateHistoryItemStatus(taken, text, "failed"))
          [] outcome = "validated" ->
               finally(updateHistoryItemStatus(taken, text, "validated"))
          [] OTHER -> finally(updateHistoryItemStatus(taken, text, "pending"))
  IN settle(r.requests[k],
            [r EXCEPT !.requests = SelectAt(@, (1..Len(@)) \ {k})])

\* lines 454-487: handleGenerate after the await of the k-th unsettled request
handleGenerateSettled(r, k, outcome) ==
  LET finally(after) ==
        [after EXCEPT !.isGenerating = FALSE,
                      !.generateBtn = [textContent |-> "Generate", disabled |-> FALSE]]
      settle(text, taken) ==
        CASE outcome = "notOk" ->
               finally(showNotification(updateHistoryItemStatus(taken, text, "failed"),
                                        "Generation failed"))
          [] outcome = "rejected" ->
               finally(showNotification(updateHistoryItemStatus(taken, text, "failed"),
                                        "Error"))
          [] outcome = "validated" ->
               finally(updateHistoryItemStatus(taken, text, "validated"))
          [] outcome = "invalid" ->
               finally(updateHistoryItemStatus(taken, text, "failed"))
          [] OTHER ->
               finally(showNotification(updateHistoryItemStatus(taken, text, "pending"),
                                        "Generated successfully"))
  IN settle(r.requests[k],
            [r EXCEPT !.requests = SelectAt(@, (1..Len(@)) \ {k})])

InitRenderer ==
  /\ pc = "renderer"
  /\ renderer = RendererLoaded
  /\ input = << >>
  /\ output = << >>
  /\ sentences = << >>
  /\ entities = NoEntities
  /\ tree = NewTree(entities)
  /\ stepId = 0
  /\ createdSteps = << >>
  /\ variableScope = << >>
  /\ caseStack = << >>

RendererStep(after) ==
  /\ pc = "renderer"
  /\ renderer' = after
  /\ UNCHANGED <<pc, sentences, entities, tree, stepId, createdSteps, variableScope,
                 caseStack, input, output>>

\* the user edits the proof
EditProof ==
  \E text \in ProofInputs \ {renderer.englishInput} :
    RendererStep([renderer EXCEPT !.englishInput = text])

GenerateWithoutProof ==
  /\ trim(renderer.englishInput) = << >>
  /\ RendererStep(handleGenerate(renderer))

GenerateWhileGenerating ==
  /\ trim(renderer.englishInput) # << >>
  /\ renderer.isGenerating
  /\ RendererStep(handleGenerate(renderer))

GenerateAccepted ==
  /\ trim(renderer.englishInput) # << >>
  /\ ~renderer.isGenerating
  /\ renderer.sent < MaxGenerations
  /\ RendererStep(handleGenerate(renderer))

Settled(outcomes) ==
  \E k \in 1..Len(renderer.requests) : \E outcome \in outcomes :
    RendererStep(handleGenerateSettled(renderer, k, outcome))

ResultNotOk == Settled({"notOk"})

ResultOk == Settled({"noValidation", "validated", "invalid"})

RequestRejected == Settled({"rejected"})

NextRenderer ==
  \/ EditProof
  \/ GenerateWithoutProof
  \/ GenerateWhileGenerating
  \/ GenerateAccepted
  \/ ResultNotOk
  \/ ResultOk
  \/ RequestRejected

SpecRenderer == InitRenderer /\ [][NextRenderer]_vars

\* C30: at most one api.generateLean request is unsettled at any time, and one is
\* unsettled exactly while isGenerating is true and the button disabled; while
\* isGenerating is true no step sends a request or adds to messages or to the
\* history; every way the request settles resets isGenerating and enables the
\* button, after which a call with a proof in the editor is accepted.
C30_OneRequestInFlight ==
  [][ /\ \A r \in {renderer, renderer'} :
           /\ Len(r.requests) <= 1
           /\ r.isGenerating <=> (Len(r.requests) = 1)
           /\ r.generateBtn.disabled = r.isGenerating
      /\ renderer.isGenerating =>
           /\ renderer'.sent = renderer.sent
           /\ renderer'.messages = renderer.messages
           /\ Len(renderer'.history) = Len(renderer.history)
      /\ Len(renderer'.requests) < Len(renderer.requests) =>
           /\ ~renderer'.isGenerating
           /\ ~renderer'.generateBtn.disabled
           /\ (trim(renderer'.englishInput) # << >>
                 => handleGenerate(renderer').requests = <<trim(renderer'.englishInput)>>)
    ]_vars

C30_Witness ==
  /\ renderer.sent = MaxGenerations
  /\ ~renderer.isGenerating
  /\ renderer.notification = "Already generating..."
  /\ Len(renderer.messages) = MaxGenerations
  /\ renderer.history = <<[text |-> TVarY, status |-> "failed"],
                          [text |-> TVarX, status |-> "validated"]>>

====
